---- MODULE Spec2Model ----
(***************************************************************************)
(* Model of the analysis orchestration of the customer-triage application: *)
(* the call client (groqRequest, getGroqInstance, parseJsonResponse), the  *)
(* three engines (categorizeMessage, calculateUrgency,                     *)
(* getRecommendedAction) with their rule-based fallbacks, and the page     *)
(* handlers handleAnalyze / handleCancel that sequence them.               *)
(*                                                                         *)
(* Text is modelled as a sequence of one-character strings, so that        *)
(* toLowerCase and includes are computed as the code computes them.        *)
(* A reply of the remote service is a sequence of tokens (braces, prose    *)
(* words, JSON members).  Confidence values are kept in hundredths.        *)
(***************************************************************************)
EXTENDS Integers, Sequences, FiniteSets, TLC

(***************************************************************************)
(* Text helpers                                                            *)
(***************************************************************************)
UpperChars == <<"A","B","C","D","E","F","G","H","I","J","K","L","M","N","O","P","Q","R","S","T","U","V","W","X","Y","Z">>
LowerChars == <<"a","b","c","d","e","f","g","h","i","j","k","l","m","n","o","p","q","r","s","t","u","v","w","x","y","z">>

LowerChar(c) ==
  IF \E i \in 1..Len(UpperChars) : UpperChars[i] = c
  THEN LowerChars[CHOOSE i \in 1..Len(UpperChars) : UpperChars[i] = c]
  ELSE c

UpperChar(c) ==
  IF \E i \in 1..Len(LowerChars) : LowerChars[i] = c
  THEN UpperChars[CHOOSE i \in 1..Len(LowerChars) : LowerChars[i] = c]
  ELSE c

toLowerCase(s) == [i \in 1..Len(s) |-> LowerChar(s[i])]

toUpperCase(s) == [i \in 1..Len(s) |-> UpperChar(s[i])]

\* String.prototype.includes: kw occurs in s as a contiguous substring.
includes(s, kw) ==
  \E i \in 0..(Len(s) - Len(kw)) : \A j \in 1..Len(kw) : s[i + j] = kw[j]

\* Array.prototype.some over a keyword list.
someIncluded(s, kws) == \E j \in 1..Len(kws) : includes(s, kws[j])

\* (message.match(/c/g) || []).length
countChar(s, c) == Cardinality({i \in 1..Len(s) : s[i] = c})

IsSpace(c) == c = " "

\* message.trim()
trim(s) ==
  IF \A i \in 1..Len(s) : IsSpace(s[i]) THEN << >>
  ELSE LET lo == CHOOSE i \in 1..Len(s) :
                   ~IsSpace(s[i]) /\ \A j \in 1..(i - 1) : IsSpace(s[j])
           hi == CHOOSE i \in 1..Len(s) :
                   ~IsSpace(s[i]) /\ \A j \in (i + 1)..Len(s) : IsSpace(s[j])
       IN  SubSeq(s, lo, hi)

\* message.trim().split(/\s+/).length : the empty text splits into one piece.
wordCount(s) ==
  LET t == trim(s)
  IN  IF t = << >> THEN 1
      ELSE Cardinality({i \in 1..Len(t) :
                          ~IsSpace(t[i]) /\ (i = 1 \/ IsSpace(t[i - 1]))})

\* keyword.split(' ').length
splitLength(kw) == 1 + countChar(kw, " ")

\* The messages typed into the page.
PaymentMessage == <<"O","u","r"," ","p","a","y","m","e","n","t"," ","f","a","i","l","e","d"," ","a","n","d"," ","w","e"," ","c","a","n","'","t"," ","a","c","c","e","s","s"," ","o","u","r"," ","a","c","c","o","u","n","t">>
DarkModeMessage == <<"C","a","n"," ","y","o","u"," ","a","d","d"," ","a"," ","d","a","r","k"," ","m","o","d","e"," ","f","e","a","t","u","r","e","?">>
Messages == {PaymentMessage, DarkModeMessage}

(***************************************************************************)
(* Signal detection (urgencyScorer.js)                                     *)
(***************************************************************************)
CRITICAL_KEYWORDS ==
  << <<"d","o","w","n">>, <<"o","u","t","a","g","e">>, <<"e","m","e","r","g","e","n","c","y">>, <<"u","r","g","e","n","t">>, <<"c","r","i","t","i","c","a","l">>, <<"a","s","a","p">>,
     <<"i","m","m","e","d","i","a","t","e","l","y">>, <<"p","r","o","d","u","c","t","i","o","n">>, <<"s","e","c","u","r","i","t","y">>, <<"b","r","e","a","c","h">>, <<"h","a","c","k">>,
     <<"c","o","m","p","r","o","m","i","s","e","d">>, <<"d","a","t","a"," ","l","o","s","s">>, <<"c","a","n","n","o","t"," ","a","c","c","e","s","s">>, <<"c","a","n","'","t"," ","a","c","c","e","s","s">>,
     <<"l","o","c","k","e","d"," ","o","u","t">>, <<"b","l","o","c","k","e","d">>, <<"d","e","a","d","l","i","n","e">>, <<"l","e","g","a","l">>, <<"l","a","w","s","u","i","t">>,
     <<"c","o","m","p","l","i","a","n","c","e">>, <<"a","u","d","i","t">>, <<"e","x","e","c","u","t","i","v","e">>, <<"c","e","o">>, <<"c","t","o">> >>

SYSTEM_IMPACT_KEYWORDS ==
  << <<"a","l","l"," ","u","s","e","r","s">>, <<"e","v","e","r","y","o","n","e">>, <<"e","n","t","i","r","e">>, <<"c","o","m","p","a","n","y","-","w","i","d","e">>,
     <<"o","r","g","a","n","i","z","a","t","i","o","n">>, <<"m","u","l","t","i","p","l","e">>, <<"t","e","a","m">>, <<"d","e","p","a","r","t","m","e","n","t">>,
     <<"c","u","s","t","o","m","e","r","s"," ","a","f","f","e","c","t","e","d">>, <<"w","i","d","e","s","p","r","e","a","d">> >>

BUSINESS_IMPACT_KEYWORDS ==
  << <<"r","e","v","e","n","u","e">>, <<"m","o","n","e","y">>, <<"l","o","s","i","n","g">>, <<"c","o","s","t">>, <<"c","o","n","t","r","a","c","t">>, <<"c","l","i","e","n","t">>,
     <<"d","e","m","o">>, <<"p","r","e","s","e","n","t","a","t","i","o","n">>, <<"m","e","e","t","i","n","g">>, <<"l","a","u","n","c","h">>, <<"r","e","l","e","a","s","e">> >>

POSITIVE_WORDS ==
  << <<"t","h","a","n","k">>, <<"t","h","a","n","k","s">>, <<"a","p","p","r","e","c","i","a","t","e">>, <<"h","a","p","p","y">>, <<"l","o","v","e">>, <<"g","r","e","a","t">>,
     <<"e","x","c","e","l","l","e","n","t">>, <<"w","o","n","d","e","r","f","u","l">>, <<"a","m","a","z","i","n","g">> >>

NEGATIVE_WORDS ==
  << <<"a","n","g","r","y">>, <<"f","r","u","s","t","r","a","t","e","d">>, <<"f","u","r","i","o","u","s">>, <<"t","e","r","r","i","b","l","e">>, <<"a","w","f","u","l">>,
     <<"w","o","r","s","t">>, <<"u","n","a","c","c","e","p","t","a","b","l","e">>, <<"r","i","d","i","c","u","l","o","u","s">> >>

AllCapsMinLength == 10

detectSignals(message) ==
  LET lowerMessage == toLowerCase(message)
  IN  [ hasCriticalKeyword   |-> someIncluded(lowerMessage, CRITICAL_KEYWORDS),
        hasSystemImpact      |-> someIncluded(lowerMessage, SYSTEM_IMPACT_KEYWORDS),
        hasBusinessImpact    |-> someIncluded(lowerMessage, BUSINESS_IMPACT_KEYWORDS),
        exclamationCount     |-> countChar(message, "!"),
        questionCount        |-> countChar(message, "?"),
        isAllCaps            |-> message = toUpperCase(message)
                                   /\ Len(message) > AllCapsMinLength,
        hasPositiveSentiment |-> someIncluded(lowerMessage, POSITIVE_WORDS),
        hasNegativeSentiment |-> someIncluded(lowerMessage, NEGATIVE_WORDS),
        messageLength        |-> Len(message),
        wordCount            |-> wordCount(message) ]

\* detectSignals, evaluated once for each message of the page.
signalsTable == [m \in Messages |-> detectSignals(m)]

signalsOf(message) ==
  IF message \in Messages THEN signalsTable[message] ELSE detectSignals(message)

(***************************************************************************)
(* Fallback urgency (urgencyScorer.js)                                     *)
(***************************************************************************)
\* Category names; NoCategory is the null passed by handleAnalyze.
BillingIssue     == "Billing Issue"
TechnicalProblem == "Technical Problem"
FeatureRequest   == "Feature Request"
GeneralInquiry   == "General Inquiry"
UnknownCategory  == "Unknown"
NoCategory       == "null"

BaseScore == 50
HighThreshold == 70
MediumThreshold == 30

Max(a, b) == IF a >= b THEN a ELSE b
Min(a, b) == IF a <= b THEN a ELSE b

\* The level derived from a score by the fixed thresholds.
levelOfScore(score) ==
  IF score >= HighThreshold THEN "High"
  ELSE IF score >= MediumThreshold THEN "Medium"
  ELSE "Low"

\* A variant in which two exclamation marks raise the score whatever the
\* sentiment.
rawFallbackScoreAnyEmphasis(category, signals) ==
  BaseScore
  + (IF signals.hasCriticalKeyword THEN 35 ELSE 0)
  + (IF signals.hasSystemImpact THEN 20 ELSE 0)
  + (IF signals.hasBusinessImpact THEN 15 ELSE 0)
  + (IF signals.hasNegativeSentiment THEN 15 ELSE 0)
  + (IF category = TechnicalProblem THEN 10
     ELSE IF category = BillingIssue THEN 5
     ELSE IF category = FeatureRequest THEN 0 - 15
     ELSE 0)
  - (IF signals.hasPositiveSentiment /\ ~signals.hasCriticalKeyword
         /\ ~signals.hasNegativeSentiment THEN 20 ELSE 0)
  + (IF signals.exclamationCount >= 2 THEN 10 ELSE 0)
  - (IF signals.questionCount > 0 /\ ~signals.hasCriticalKeyword
         /\ ~signals.hasNegativeSentiment THEN 10 ELSE 0)

\* A variant in which a question lowers the score by 20.
rawFallbackScoreSteepQuestion(category, signals) ==
  BaseScore
  + (IF signals.hasCriticalKeyword THEN 35 ELSE 0)
  + (IF signals.hasSystemImpact THEN 20 ELSE 0)
  + (IF signals.hasBusinessImpact THEN 15 ELSE 0)
  + (IF signals.hasNegativeSentiment THEN 15 ELSE 0)
  + (IF category = TechnicalProblem THEN 10
     ELSE IF category = BillingIssue THEN 5
     ELSE IF category = FeatureRequest THEN 0 - 15
     ELSE 0)
  - (IF signals.hasPositiveSentiment /\ ~signals.hasCriticalKeyword
         /\ ~signals.hasNegativeSentiment THEN 20 ELSE 0)
  + (IF signals.exclamationCount >= 2
         /\ (signals.hasNegativeSentiment \/ signals.hasCriticalKeyword)
     THEN 10 ELSE 0)
  - (IF signals.questionCount > 0 /\ ~signals.hasCriticalKeyword
         /\ ~signals.hasNegativeSentiment THEN 20 ELSE 0)

\* The score before clamping: the additive adjustments in code order.
rawFallbackScore(category, signals) ==
  BaseScore
  + (IF signals.hasCriticalKeyword THEN 35 ELSE 0)
  + (IF signals.hasSystemImpact THEN 20 ELSE 0)
  + (IF signals.hasBusinessImpact THEN 15 ELSE 0)
  + (IF signals.hasNegativeSentiment THEN 15 ELSE 0)
  + (IF category = TechnicalProblem THEN 10
     ELSE IF category = BillingIssue THEN 5
     ELSE IF category = FeatureRequest THEN 0 - 15
     ELSE 0)
  - (IF signals.hasPositiveSentiment /\ ~signals.hasCriticalKeyword
         /\ ~signals.hasNegativeSentiment THEN 20 ELSE 0)
  + (IF signals.exclamationCount >= 2
         /\ (signals.hasNegativeSentiment \/ signals.hasCriticalKeyword)
     THEN 10 ELSE 0)
  - (IF signals.questionCount > 0 /\ ~signals.hasCriticalKeyword
         /\ ~signals.hasNegativeSentiment THEN 10 ELSE 0)

clampScore(score) == Max(0, Min(100, score))

getFallbackUrgency(message, category, signals) ==
  LET score == clampScore(rawFallbackScore(category, signals))
  IN  [ level |-> levelOfScore(score), score |-> score, via |-> "fallback" ]

calculateUrgencySync(message) ==
  getFallbackUrgency(message, NoCategory, signalsOf(message)).level

(***************************************************************************)
(* Fallback categorization (llmHelper.js)                                  *)
(***************************************************************************)
BillingKeywords ==
  << <<"b","i","l","l">>, <<"p","a","y","m","e","n","t">>, <<"c","h","a","r","g","e">>, <<"i","n","v","o","i","c","e">>, <<"r","e","f","u","n","d">>,
     <<"s","u","b","s","c","r","i","p","t","i","o","n">>, <<"p","r","i","c","e">>, <<"c","o","s","t">>, <<"f","e","e">>, <<"c","r","e","d","i","t"," ","c","a","r","d">>,
     <<"c","a","n","c","e","l"," ","s","u","b","s","c","r","i","p","t","i","o","n">>, <<"r","e","n","e","w","a","l">>, <<"d","i","s","c","o","u","n","t">>, <<"p","r","o","m","o">>, <<"c","o","u","p","o","n">> >>

TechnicalKeywords ==
  << <<"b","u","g">>, <<"e","r","r","o","r">>, <<"b","r","o","k","e","n">>, <<"n","o","t"," ","w","o","r","k","i","n","g">>, <<"c","r","a","s","h">>, <<"d","o","w","n">>,
     <<"s","l","o","w">>, <<"l","o","a","d","i","n","g">>, <<"f","r","e","e","z","e">>, <<"s","t","u","c","k">>, <<"f","a","i","l">>, <<"i","s","s","u","e">>,
     <<"p","r","o","b","l","e","m">>, <<"g","l","i","t","c","h">>, <<"u","n","r","e","s","p","o","n","s","i","v","e">>, <<"t","i","m","e","o","u","t">>, <<"c","o","n","n","e","c","t","i","o","n">> >>

FeatureKeywords ==
  << <<"f","e","a","t","u","r","e">>, <<"a","d","d">>, <<"i","m","p","r","o","v","e">>, <<"e","n","h","a","n","c","e","m","e","n","t">>, <<"s","u","g","g","e","s","t","i","o","n">>,
     <<"w","i","s","h">>, <<"w","o","u","l","d"," ","b","e"," ","g","r","e","a","t">>, <<"w","o","u","l","d"," ","l","i","k","e">>, <<"c","o","u","l","d"," ","y","o","u"," ","a","d","d">>,
     <<"m","i","s","s","i","n","g">>, <<"n","e","e","d"," ","a","b","i","l","i","t","y">>, <<"r","o","a","d","m","a","p">> >>

GeneralKeywords ==
  << <<"h","o","w"," ","d","o">>, <<"h","o","w"," ","t","o">>, <<"w","h","a","t"," ","i","s">>, <<"w","h","e","r","e"," ","i","s">>, <<"c","a","n"," ","i">>,
     <<"i","s"," ","t","h","e","r","e">>, <<"h","e","l","p">>, <<"q","u","e","s","t","i","o","n">>, <<"w","o","n","d","e","r","i","n","g">>, <<"c","u","r","i","o","u","s">>,
     <<"t","h","a","n","k">>, <<"t","h","a","n","k","s">>, <<"g","r","e","a","t"," ","j","o","b">>, <<"l","o","v","e">> >>

\* Object.entries(CATEGORY_DEFINITIONS): the categories in insertion order.
CATEGORY_DEFINITIONS ==
  << [ name |-> BillingIssue,     keywords |-> BillingKeywords ],
     [ name |-> TechnicalProblem, keywords |-> TechnicalKeywords ],
     [ name |-> FeatureRequest,   keywords |-> FeatureKeywords ],
     [ name |-> GeneralInquiry,   keywords |-> GeneralKeywords ] >>

validCategories == {CATEGORY_DEFINITIONS[i].name : i \in 1..Len(CATEGORY_DEFINITIONS)}

getAvailableCategories == validCategories \cup {UnknownCategory}

RECURSIVE sumWeights(_, _, _)
sumWeights(lowerMessage, kws, j) ==
  IF j > Len(kws) THEN 0
  ELSE (IF includes(lowerMessage, kws[j]) THEN splitLength(kws[j]) ELSE 0)
       + sumWeights(lowerMessage, kws, j + 1)

\* scores[category] after the keyword loop.
keywordScore(lowerMessage, i) ==
  sumWeights(lowerMessage, CATEGORY_DEFINITIONS[i].keywords, 1)

PaymentFailureBonus == 2

\* A variant without the payment + fail/error adjustment.
unadjustedScores(lowerMessage) ==
  [i \in 1..Len(CATEGORY_DEFINITIONS) |-> keywordScore(lowerMessage, i)]

\* scores after the payment + fail/error adjustment.
adjustedScores(lowerMessage) ==
  LET scores == [i \in 1..Len(CATEGORY_DEFINITIONS) |-> keywordScore(lowerMessage, i)]
      bonus  == scores[2] > 0 /\ scores[1] > 0
                /\ includes(lowerMessage, <<"p","a","y","m","e","n","t">>)
                /\ (includes(lowerMessage, <<"f","a","i","l">>) \/ includes(lowerMessage, <<"e","r","r","o","r">>))
  IN  [scores EXCEPT ![1] = IF bonus THEN @ + PaymentFailureBonus ELSE @]

\* A variant of the loop that stops at the first category with a positive
\* score.
RECURSIVE bestOfFirstPositive(_, _, _, _)
bestOfFirstPositive(scores, i, bestCategory, bestScore) ==
  IF i > Len(scores) THEN [category |-> bestCategory, score |-> bestScore]
  ELSE IF scores[i] > 0
       THEN [category |-> CATEGORY_DEFINITIONS[i].name, score |-> scores[i]]
       ELSE bestOfFirstPositive(scores, i + 1, bestCategory, bestScore)

\* The loop "if (score > bestScore)": the first category holding the maximum,
\* General Inquiry with score 0 when no score is positive.
RECURSIVE bestOf(_, _, _, _)
bestOf(scores, i, bestCategory, bestScore) ==
  IF i > Len(scores) THEN [category |-> bestCategory, score |-> bestScore]
  ELSE IF scores[i] > bestScore
       THEN bestOf(scores, i + 1, CATEGORY_DEFINITIONS[i].name, scores[i])
       ELSE bestOf(scores, i + 1, bestCategory, bestScore)

(***************************************************************************)
(* JSON values and reply contents (apiClient)                              *)
(***************************************************************************)
JNum(n)   == [t |-> "num",  n |-> n, s |-> ""]
JStr(s)   == [t |-> "str",  n |-> 0, s |-> s]
JBool(b)  == [t |-> "bool", n |-> IF b THEN 1 ELSE 0, s |-> ""]
JNull     == [t |-> "null", n |-> 0, s |-> ""]
Undefined == [t |-> "undefined", n |-> 0, s |-> ""]

\* JavaScript truthiness, as used by the || defaults.
Truthy(v) ==
  CASE v.t = "num"  -> v.n # 0
    [] v.t = "str"  -> v.s # ""
    [] v.t = "bool" -> v.n = 1
    [] OTHER        -> FALSE

\* a || b
OrElse(a, b) == IF Truthy(a) THEN a ELSE b

\* Tokens of a reply text.
LBrace       == [t |-> "{",      k |-> "", v |-> JNull]
RBrace       == [t |-> "}",      k |-> "", v |-> JNull]
Fence        == [t |-> "fence",  k |-> "", v |-> JNull]
Prose(w)     == [t |-> "text",   k |-> w,  v |-> JNull]
Member(k, v) == [t |-> "member", k |-> k,  v |-> v]

\* response.choices[0].message.content: a text, or null.
TextContent(toks) == [isNull |-> FALSE, text |-> toks]
NullContent       == [isNull |-> TRUE,  text |-> << >>]

\* The outcome of parseJsonResponse: an object (its members in order), null,
\* or the TypeError of calling match on a null content.
ParsedObject(ms) == [kind |-> "object", members |-> ms]
ParsedNull       == [kind |-> "null",   members |-> << >>]
ParseThrows      == [kind |-> "throw",  members |-> << >>]

\* JSON.parse of a brace-delimited span: an object iff only members lie
\* between the outer braces.
jsonParse(span) ==
  IF \A i \in 2..(Len(span) - 1) : span[i].t = "member"
  THEN ParsedObject(SubSeq(span, 2, Len(span) - 1))
  ELSE ParsedNull

\* A variant of parseJsonResponse that decodes only a content that is a
\* JSON text from its first character to its last.
parseJsonResponseWholeText(content) ==
  IF content.isNull THEN ParseThrows
  ELSE IF content.text # << >> /\ content.text[1].t = "{"
          /\ content.text[Len(content.text)].t = "}"
       THEN jsonParse(content.text)
       ELSE ParsedNull

\* content.match(/\{[\s\S]*\}/): greedy, from the first "{" to the last "}".
parseJsonResponse(content) ==
  IF content.isNull THEN ParseThrows
  ELSE LET text   == content.text
           opens  == {i \in 1..Len(text) : text[i].t = "{"}
       IN  IF opens = {} THEN ParsedNull
           ELSE LET first  == CHOOSE i \in opens : \A j \in opens : i <= j
                    closes == {i \in 1..Len(text) : text[i].t = "}" /\ i > first}
                IN  IF closes = {} THEN ParsedNull
                    ELSE LET last == CHOOSE i \in closes : \A j \in closes : j <= i
                         IN  jsonParse(SubSeq(text, first, last))

\* parsed.key: the value of the last member with that key, else undefined.
field(parsed, key) ==
  LET ms   == parsed.members
      hits == {i \in 1..Len(ms) : ms[i].k = key}
  IN  IF hits = {} THEN Undefined
      ELSE ms[CHOOSE i \in hits : \A j \in hits : j <= i].v

\* The characters of a JSON string value, for the strings replies carry.
strChars(s) ==
  CASE s = "Billing Issue"     -> <<"B","i","l","l","i","n","g"," ","I","s","s","u","e">>
    [] s = "Technical Problem" -> <<"T","e","c","h","n","i","c","a","l"," ","P","r","o","b","l","e","m">>
    [] s = "Feature Request"   -> <<"F","e","a","t","u","r","e"," ","R","e","q","u","e","s","t">>
    [] s = "General Inquiry"   -> <<"G","e","n","e","r","a","l"," ","I","n","q","u","i","r","y">>
    [] s = "billing issue"     -> <<"b","i","l","l","i","n","g"," ","i","s","s","u","e">>
    [] s = "Refunds"           -> <<"R","e","f","u","n","d","s">>
    [] s = "High"              -> <<"H","i","g","h">>
    [] s = "Medium"            -> <<"M","e","d","i","u","m">>
    [] s = "Low"               -> <<"L","o","w">>
    [] OTHER                   -> <<"t","e","x","t">>

tokenChars(tok) ==
  CASE tok.t = "{"      -> <<"{">>
    [] tok.t = "}"      -> <<"}">>
    [] tok.t = "fence"  -> <<"~","~","~">>
    [] tok.t = "text"   -> tok.k
    [] OTHER            -> IF tok.v.t = "str" THEN strChars(tok.v.s) ELSE <<"0">>

\* The raw reply text, token by token, separated by blanks.
RECURSIVE rawText(_)
rawText(toks) ==
  IF toks = << >> THEN << >>
  ELSE tokenChars(Head(toks)) \o <<" ">> \o rawText(Tail(toks))

(***************************************************************************)
(* Errors                                                                  *)
(***************************************************************************)
NoError          == [name |-> "",           status |-> 0,   message |-> ""]
AbortError       == [name |-> "AbortError", status |-> 0,   message |-> "Request was aborted."]
ConnectionError  == [name |-> "Error",      status |-> 0,   message |-> "Connection error."]
ServerError      == [name |-> "Error",      status |-> 500, message |-> "Internal server error"]
Unauthorized     == [name |-> "Error",      status |-> 401, message |-> "Unauthorized"]
Forbidden        == [name |-> "Error",      status |-> 403, message |-> "Forbidden"]
RequestCancelled == [name |-> "Error",      status |-> 0,   message |-> "Request cancelled"]
ImportError      == [name |-> "TypeError",  status |-> 0,   message |-> "Failed to fetch dynamically imported module"]
\* content.match on a null content
NullMatchError   == [name |-> "TypeError",  status |-> 0,   message |-> "Cannot read properties of null (reading 'match')"]

\* What a groqRequest call hands to its caller.
Returned(content) == [kind |-> "returned", content |-> content,     error |-> NoError]
Thrown(error)     == [kind |-> "thrown",   content |-> NullContent, error |-> error]

(***************************************************************************)
(* Categorization engine (llmHelper.js)                                    *)
(***************************************************************************)
\* The template Math.random picks among the templates of the category;
\* the reasoning of the other paths, a text of the reply, is left as << >>.
TemplateCount == 3

generateFallbackReasoning(category, random) == << category, random >>

\* The result before generateFallbackReasoning has drawn its template.
getFallbackCategorization(message) ==
  LET best == bestOf(adjustedScores(toLowerCase(message)), 1, GeneralInquiry, 0)
  IN  [ category   |-> best.category,
        confidence |-> JNum(IF best.score > 2 THEN 80
                            ELSE IF best.score > 0 THEN 60 ELSE 40),
        reasoning  |-> << >>,
        via        |-> "fallback",
        error      |-> NoError ]

\* getFallbackCategorization, evaluated once for each message of the page.
categorizationTable == [m \in Messages |-> getFallbackCategorization(m)]

fallbackCategorizationOf(message) ==
  IF message \in Messages THEN categorizationTable[message]
  ELSE getFallbackCategorization(message)

RECURSIVE firstMentioned(_, _)
firstMentioned(lowerContent, i) ==
  IF i > Len(CATEGORY_DEFINITIONS) THEN 0
  ELSE IF includes(lowerContent, toLowerCase(strChars(CATEGORY_DEFINITIONS[i].name)))
       THEN i
       ELSE firstMentioned(lowerContent, i + 1)

extractCategoryFromProse(content, originalMessage) ==
  LET i == firstMentioned(toLowerCase(rawText(content.text)), 1)
  IN  IF i > 0
      THEN [ category   |-> CATEGORY_DEFINITIONS[i].name,
             confidence |-> JNum(70),
             reasoning  |-> << >>,
             via        |-> "prose",
             error      |-> NoError ]
      ELSE fallbackCategorizationOf(originalMessage)

\* A variant of categorizeMessage whose try block ends before the reply is
\* decoded: an error of parseJsonResponse escapes.
categorizeMessageDecodesOutsideTry(message, out) ==
  IF out.kind = "thrown" THEN fallbackCategorizationOf(message)
  ELSE LET parsed == parseJsonResponse(out.content)
       IN  CASE parsed.kind = "throw"  ->
                  [ category |-> UnknownCategory, confidence |-> JNull,
                    reasoning |-> << >>, via |-> "none", error |-> NullMatchError ]
             [] parsed.kind = "object" ->
                  LET c == field(parsed, "category")
                  IN  [ category   |-> IF c.t = "str" /\ c.s \in validCategories
                                       THEN c.s ELSE UnknownCategory,
                        confidence |-> OrElse(field(parsed, "confidence"), JNum(80)),
                        reasoning  |-> << >>,
                        via        |-> "ai",
                        error      |-> NoError ]
             [] OTHER -> extractCategoryFromProse(out.content, message)

\* categorizeMessage from the point where groqRequest has settled with out.
categorizeMessage(message, out) ==
  IF out.kind = "thrown" THEN fallbackCategorizationOf(message)
  ELSE LET parsed == parseJsonResponse(out.content)
       IN  CASE parsed.kind = "throw"  -> fallbackCategorizationOf(message)
             [] parsed.kind = "object" ->
                  LET c == field(parsed, "category")
                  IN  [ category   |-> IF c.t = "str" /\ c.s \in validCategories
                                       THEN c.s ELSE UnknownCategory,
                        confidence |-> OrElse(field(parsed, "confidence"), JNum(80)),
                        reasoning  |-> << >>,
                        via        |-> "ai",
                        error      |-> NoError ]
             [] OTHER -> extractCategoryFromProse(out.content, message)

(***************************************************************************)
(* Urgency engine (urgencyScorer.js)                                       *)
(***************************************************************************)
fallbackUrgencyResult(message, category, signals) ==
  LET r == getFallbackUrgency(message, category, signals)
  IN  [ level |-> JStr(r.level), score |-> JNum(r.score),
        via |-> "fallback", error |-> NoError ]

\* calculateUrgency from the point where groqRequest has settled with out.
calculateUrgency(message, category, out) ==
  LET signals == signalsOf(message)
  IN  IF out.kind = "thrown" THEN fallbackUrgencyResult(message, category, signals)
      ELSE LET parsed == parseJsonResponse(out.content)
           IN  IF parsed.kind = "object"
               THEN [ level |-> OrElse(field(parsed, "level"), JStr("Medium")),
                      score |-> OrElse(field(parsed, "score"), JNum(50)),
                      via   |-> "ai",
                      error |-> NoError ]
               ELSE fallbackUrgencyResult(message, category, signals)

(***************************************************************************)
(* Action engine (templates.js)                                            *)
(***************************************************************************)
escalationTriggers ==
  << [ keywords |-> << <<"s","e","c","u","r","i","t","y">>, <<"b","r","e","a","c","h">>, <<"h","a","c","k">>, <<"c","o","m","p","r","o","m","i","s","e","d">> >>,
       reason   |-> "Security concern requires immediate escalation to security team" ],
     [ keywords |-> << <<"l","e","g","a","l">>, <<"l","a","w","y","e","r">>, <<"l","a","w","s","u","i","t">>, <<"s","u","e">> >>,
       reason   |-> "Legal mention requires escalation to legal/compliance team" ],
     [ keywords |-> << <<"c","a","n","c","e","l">>, <<"l","e","a","v","i","n","g">>, <<"c","o","m","p","e","t","i","t","o","r">> >>,
       reason   |-> "Churn risk - escalate to retention team" ],
     [ keywords |-> << <<"c","e","o">>, <<"c","t","o">>, <<"e","x","e","c","u","t","i","v","e">>, <<"v","i","p">> >>,
       reason   |-> "Executive/VIP customer requires priority handling" ],
     [ keywords |-> << <<"a","l","l"," ","u","s","e","r","s">>, <<"e","v","e","r","y","o","n","e">>, <<"c","o","m","p","a","n","y","-","w","i","d","e">>, <<"o","u","t","a","g","e">> >>,
       reason   |-> "System-wide issue affecting multiple users" ] >>

HighUrgencyReason == "High urgency issue requires immediate supervisor attention"

\* A variant of the scan in which a later group overrides an earlier one.
RECURSIVE lastTrigger(_, _)
lastTrigger(lowerMessage, i) ==
  IF i > Len(escalationTriggers) THEN 0
  ELSE LET later == lastTrigger(lowerMessage, i + 1)
       IN  IF later > 0 THEN later
           ELSE IF someIncluded(lowerMessage, escalationTriggers[i].keywords) THEN i
           ELSE 0

\* The index of the first trigger group with a keyword in the message, else 0.
RECURSIVE firstTrigger(_, _)
firstTrigger(lowerMessage, i) ==
  IF i > Len(escalationTriggers) THEN 0
  ELSE IF someIncluded(lowerMessage, escalationTriggers[i].keywords) THEN i
       ELSE firstTrigger(lowerMessage, i + 1)

\* The branch of the category-specific decision tree that sets the action text.
actionBranch(lowerMessage, category) ==
  CASE category = BillingIssue ->
         IF includes(lowerMessage, <<"r","e","f","u","n","d">>) THEN "billing-refund"
         ELSE IF includes(lowerMessage, <<"c","h","a","r","g","e">>) \/ includes(lowerMessage, <<"c","h","a","r","g","e","d">>)
              THEN "billing-charge"
         ELSE IF includes(lowerMessage, <<"c","a","n","c","e","l">>) THEN "billing-cancel"
         ELSE "billing-default"
    [] category = TechnicalProblem ->
         IF includes(lowerMessage, <<"l","o","g","i","n">>) \/ includes(lowerMessage, <<"p","a","s","s","w","o","r","d">>)
            \/ includes(lowerMessage, <<"a","c","c","e","s","s">>) THEN "technical-access"
         ELSE IF includes(lowerMessage, <<"s","l","o","w">>) \/ includes(lowerMessage, <<"p","e","r","f","o","r","m","a","n","c","e">>)
              THEN "technical-performance"
         ELSE IF includes(lowerMessage, <<"e","r","r","o","r">>) \/ includes(lowerMessage, <<"b","u","g">>)
              THEN "technical-error"
         ELSE IF includes(lowerMessage, <<"d","o","w","n">>) \/ includes(lowerMessage, <<"n","o","t"," ","w","o","r","k","i","n","g">>)
              THEN "technical-outage"
         ELSE "technical-default"
    [] category = FeatureRequest ->
         IF includes(lowerMessage, <<"u","r","g","e","n","t">>) \/ includes(lowerMessage, <<"n","e","e","d">>)
         THEN "feature-workaround"
         ELSE "feature"
    [] category = GeneralInquiry ->
         IF includes(lowerMessage, <<"p","r","i","c","i","n","g">>) \/ includes(lowerMessage, <<"c","o","s","t">>)
            \/ includes(lowerMessage, <<"p","l","a","n">>) THEN "general-pricing"
         ELSE IF includes(lowerMessage, <<"h","o","w">>) \/ includes(lowerMessage, <<"t","u","t","o","r","i","a","l">>)
              THEN "general-howto"
         ELSE "general-default"
    [] OTHER -> "default"

\* The two scans of the message, evaluated once for each message of the page.
triggerTable == [m \in Messages |-> firstTrigger(toLowerCase(m), 1)]

branchTable ==
  [m \in Messages |-> [c \in getAvailableCategories |-> actionBranch(toLowerCase(m), c)]]

triggerOf(message) ==
  IF message \in Messages THEN triggerTable[message]
  ELSE firstTrigger(toLowerCase(message), 1)

branchOf(message, category) ==
  IF message \in Messages /\ category \in getAvailableCategories
  THEN branchTable[message][category]
  ELSE actionBranch(toLowerCase(message), category)

\* A variant in which a High urgency replaces the reason of a trigger group.
getFallbackRecommendationHighOverrides(message, category, urgency) ==
  LET g    == triggerOf(message)
      high == urgency = JStr("High")
  IN  [ action         |-> JStr(branchOf(message, category)),
        escalate       |-> JBool(g > 0 \/ high),
        escalateReason |-> IF high THEN JStr(HighUrgencyReason)
                           ELSE IF g > 0 THEN JStr(escalationTriggers[g].reason)
                           ELSE JNull,
        via            |-> "fallback",
        error          |-> NoError ]

\* urgency is the level value handed over by handleAnalyze.
getFallbackRecommendation(message, category, urgency) ==
  LET g    == triggerOf(message)
      high == urgency = JStr("High")
  IN  [ action         |-> JStr(branchOf(message, category)),
        escalate       |-> JBool(g > 0 \/ high),
        escalateReason |-> IF g > 0 THEN JStr(escalationTriggers[g].reason)
                           ELSE IF high THEN JStr(HighUrgencyReason)
                           ELSE JNull,
        via            |-> "fallback",
        error          |-> NoError ]

shouldEscalate(category, urgency, message) ==
  getFallbackRecommendation(message, category, urgency).escalate = JBool(TRUE)

\* getRecommendedAction from the point where groqRequest has settled with out.
getRecommendedAction(message, category, urgency, out) ==
  IF out.kind = "thrown" THEN getFallbackRecommendation(message, category, urgency)
  ELSE LET parsed == parseJsonResponse(out.content)
       IN  IF parsed.kind = "object"
           THEN [ action         |-> OrElse(field(parsed, "action"), JStr("review")),
                  escalate       |-> OrElse(field(parsed, "escalate"), JBool(FALSE)),
                  escalateReason |-> OrElse(field(parsed, "escalateReason"), JNull),
                  via            |-> "ai",
                  error          |-> NoError ]
           ELSE getFallbackRecommendation(message, category, urgency)

\* Messages that name escalation triggers.
TriggerMessages ==
  { <<"S","e","c","u","r","i","t","y"," ","b","r","e","a","c","h"," ","o","n"," ","o","u","r"," ","V","I","P"," ","a","c","c","o","u","n","t">>,
    <<"A"," ","V","I","P"," ","c","u","s","t","o","m","e","r"," ","r","e","p","o","r","t","s"," ","a"," ","h","a","c","k">>,
    <<"O","u","r"," ","l","a","w","y","e","r"," ","s","a","y","s"," ","e","v","e","r","y","o","n","e"," ","i","s"," ","a","f","f","e","c","t","e","d">>,
    <<"T","h","e"," ","C","E","O"," ","w","a","n","t","s"," ","t","o"," ","c","a","n","c","e","l">>,
    <<"O","u","t","a","g","e"," ","f","o","r"," ","t","h","e"," ","e","x","e","c","u","t","i","v","e"," ","t","e","a","m">>,
    <<"E","v","e","r","y","o","n","e"," ","i","s"," ","l","o","c","k","e","d"," ","o","u","t">> }

(***************************************************************************)
(* The state machine: page state, analyses, engines and groqRequest calls  *)
(***************************************************************************)
\* The number of times handleAnalyze is invoked in a behaviour, and the
\* number of times in the specifications that do not study overlapping runs.
MaxRuns  == 2
RunLimit == 1

Runs   == 1..MaxRuns
Stages == {"cat", "urg", "act"}

\* Replies of the remote service, per stage.
Object(ms) == TextContent(<<LBrace>> \o ms \o <<RBrace>>)

CatReplies ==
  { Object(<< Member("category", JStr("Technical Problem")),
              Member("confidence", JNum(90)) >>),
    Object(<< Member("category", JStr("Refunds")),
              Member("confidence", JNum(150)) >>),
    TextContent(<< Prose(<<"T","h","i","s"," ","i","s"," ","a">>), Prose(<<"b","i","l","l","i","n","g"," ","i","s","s","u","e">>) >>) }

UrgReplies ==
  { Object(<< Member("level", JStr("High")), Member("score", JNum(85)) >>),
    Object(<< Member("level", JStr("Low")),  Member("score", JNum(95)) >>),
    TextContent(<< Prose(<<"I","t"," ","l","o","o","k","s"," ","u","r","g","e","n","t">>) >>) }

ActReplies ==
  { Object(<< Member("action", JStr("text")), Member("escalate", JBool(TRUE)),
              Member("escalateReason", JStr("text")) >>),
    Object(<< Member("action", JStr("text")), Member("escalate", JBool(TRUE)) >>),
    NullContent }

Replies(s) ==
  CASE s = "cat" -> CatReplies
    [] s = "urg" -> UrgReplies
    [] OTHER     -> ActReplies

\* One JSON object text, and reply contents built around it: the object
\* alone, in markdown fencing, with prose before and/or after it, and
\* contents that hold no JSON object.
ReplyMembers ==
  << Member("category", JStr("Billing Issue")), Member("level", JStr("High")),
     Member("score", JNum(85)), Member("action", JStr("text")) >>

Braced(ms) == <<LBrace>> \o ms \o <<RBrace>>

LeadProse  == Prose(<<"H","e","r","e"," ","i","s"," ","t","h","e"," ","r","e","s","u","l","t">>)
TrailProse == Prose(<<"H","o","p","e"," ","t","h","i","s"," ","h","e","l","p","s">>)

JsonContents(ms) ==
  { TextContent(Braced(ms)),
    TextContent(<<Fence>> \o Braced(ms) \o <<Fence>>),
    TextContent(<<LeadProse>> \o Braced(ms)),
    TextContent(Braced(ms) \o <<TrailProse>>),
    TextContent(<<LeadProse>> \o Braced(ms) \o <<TrailProse>>) }

\* Prose alone, the empty text, an opening brace that is never closed, and
\* braces around a text that is no JSON.
NonJsonTexts ==
  { TextContent(<<LeadProse, TrailProse>>),
    TextContent(<< >>),
    TextContent(<<LeadProse, LBrace>> \o ReplyMembers),
    TextContent(<<LBrace, LeadProse, RBrace>>) }

\* Every content response.choices[0].message.content can be.
Contents ==
  JsonContents(ReplyMembers) \cup JsonContents(<< >>) \cup NonJsonTexts \cup { NullContent }

\* Failures an attempt can end with, other than an abort of its controller:
\* all of them, and the one the page-level specification draws from.
ServiceErrors == {ConnectionError, ServerError, Unauthorized, Forbidden}
PageErrors    == {Unauthorized}

\* CONFIG
timeout      == 15000
maxRetries   == 2
retryDelay   == 1000
retryBackoff == 2

RECURSIVE pow(_, _)
pow(b, e) == IF e = 0 THEN 1 ELSE b * pow(b, e - 1)

VARIABLES
  groq,                \* the module-level client handle: 0 is null
  constructed,         \* how many times new Groq(...) has run
  req,                 \* req[a][s]: the groqRequest call of stage s of run a
  eng,                 \* eng[a][s]: the engine call of stage s of run a
  run,                 \* run[a]: the handleAnalyze invocation a
  started,             \* how many times handleAnalyze has been invoked
  abortControllerRef,  \* the run whose controller the ref holds: 0 is null
  isLoading,
  results,             \* << >> is null, else <<analysisResult>>
  history,             \* localStorage triageHistory
  call                 \* a call of a rule-based function made from outside the page

vars == << groq, constructed, req, eng, run, started,
           abortControllerRef, isLoading, results, history, call >>

NoOutcome == [kind |-> "none", content |-> NullContent, error |-> NoError]

\* A groqRequest call: its position, its locals (attempt, client, lastError,
\* the current attempt's controller), what it handed back, and the record of
\* the errors caught and delays slept so far.
IdleRequest ==
  [ pc           |-> "none",
    attempt      |-> 0,
    client       |-> 0,
    aborted      |-> FALSE,   \* controller.signal.aborted of the current attempt
    lastError    |-> NoError,
    out          |-> NoOutcome,
    errs         |-> << >>,
    delays       |-> << >> ]

ConsumedRequest == [IdleRequest EXCEPT !.pc = "consumed"]

NoResult == [via |-> "none", error |-> NoError]

IdleEngine == [pc |-> "none", result |-> NoResult]

IdleRun ==
  [ pc          |-> "idle",
    message     |-> << >>,
    aborted     |-> FALSE,     \* signal.aborted of this run's AbortController
    cancelledAt |-> "",        \* the position of the run when its signal fired
    outcome     |-> "none",
    actArgs     |-> [category |-> "", urgency |-> JNull] ]
                               \* what was handed to getRecommendedAction

\* No call of a rule-based function from outside the page.
NoCall ==
  [ pc       |-> "none",
    fn       |-> "",
    message  |-> << >>,
    category |-> NoCategory,
    urgency  |-> JNull,
    result   |-> NoResult ]

\* The page before any click.
PageInit ==
  /\ groq = 0
  /\ constructed = 0
  /\ req = [a \in Runs |-> [s \in Stages |-> IdleRequest]]
  /\ eng = [a \in Runs |-> [s \in Stages |-> IdleEngine]]
  /\ run = [a \in Runs |-> IdleRun]
  /\ started = 0
  /\ abortControllerRef = 0
  /\ isLoading = FALSE
  /\ results = << >>
  /\ history = << >>

Init == PageInit /\ call = NoCall

(***************************************************************************)
(* groqRequest (apiClient)                                                 *)
(***************************************************************************)
\* One loop iteration begins: a fresh controller and timer, the listener on
\* the external signal, and the call client.chat.completions.create.  A
\* listener added to a signal that has already fired is never called.
beginAttempt(r, attempt, client) ==
  [ r EXCEPT !.pc = "attempt", !.attempt = attempt, !.client = client,
             !.aborted = FALSE ]

\* groqRequest up to its first suspension: getGroqInstance returns the
\* handle at once when it is set, else it waits for the dynamic import.
callGroqRequest(handle) ==
  IF handle = 0
  THEN [IdleRequest EXCEPT !.pc = "import"]
  ELSE beginAttempt(IdleRequest, 0, handle)

\* Variants of the catch block, each with one slip.
\* Any abort counts as a cancellation: the token is not consulted.
catchErrorAnyAbortCancels(r, error, externalAborted) ==
  LET r1 == [ r EXCEPT !.lastError = error, !.errs = Append(@, error) ]
  IN  IF error.name = "AbortError"
      THEN [ r1 EXCEPT !.pc = "thrown", !.out = Thrown(RequestCancelled) ]
      ELSE IF error.status = 401 \/ error.status = 403
      THEN [ r1 EXCEPT !.pc = "thrown", !.out = Thrown(error) ]
      ELSE IF r.attempt < maxRetries
      THEN [ r1 EXCEPT !.pc = "sleep",
                       !.delays = Append(@, retryDelay * pow(retryBackoff, r.attempt)) ]
      ELSE [ r1 EXCEPT !.pc = "thrown", !.out = Thrown(r1.lastError) ]

\* The loop bound is one short.
catchErrorOneRetryShort(r, error, externalAborted) ==
  LET r1 == [ r EXCEPT !.lastError = error, !.errs = Append(@, error) ]
  IN  IF error.name = "AbortError" /\ externalAborted
      THEN [ r1 EXCEPT !.pc = "thrown", !.out = Thrown(RequestCancelled) ]
      ELSE IF error.status = 401 \/ error.status = 403
      THEN [ r1 EXCEPT !.pc = "thrown", !.out = Thrown(error) ]
      ELSE IF r.attempt < maxRetries - 1
      THEN [ r1 EXCEPT !.pc = "sleep",
                       !.delays = Append(@, retryDelay * pow(retryBackoff, r.attempt)) ]
      ELSE [ r1 EXCEPT !.pc = "thrown", !.out = Thrown(r1.lastError) ]

\* Authentication errors are retried like any other.
catchErrorRetriesAuth(r, error, externalAborted) ==
  LET r1 == [ r EXCEPT !.lastError = error, !.errs = Append(@, error) ]
  IN  IF error.name = "AbortError" /\ externalAborted
      THEN [ r1 EXCEPT !.pc = "thrown", !.out = Thrown(RequestCancelled) ]
      ELSE IF r.attempt < maxRetries
      THEN [ r1 EXCEPT !.pc = "sleep",
                       !.delays = Append(@, retryDelay * pow(retryBackoff, r.attempt)) ]
      ELSE [ r1 EXCEPT !.pc = "thrown", !.out = Thrown(r1.lastError) ]

\* lastError keeps the first error caught.
catchErrorKeepsFirst(r, error, externalAborted) ==
  LET r1 == [ r EXCEPT !.lastError = IF @ = NoError THEN error ELSE @,
                       !.errs = Append(@, error) ]
  IN  IF error.name = "AbortError" /\ externalAborted
      THEN [ r1 EXCEPT !.pc = "thrown", !.out = Thrown(RequestCancelled) ]
      ELSE IF error.status = 401 \/ error.status = 403
      THEN [ r1 EXCEPT !.pc = "thrown", !.out = Thrown(error) ]
      ELSE IF r.attempt < maxRetries
      THEN [ r1 EXCEPT !.pc = "sleep",
                       !.delays = Append(@, retryDelay * pow(retryBackoff, r.attempt)) ]
      ELSE [ r1 EXCEPT !.pc = "thrown", !.out = Thrown(r1.lastError) ]

\* Every retry waits the initial delay.
catchErrorConstantDelay(r, error, externalAborted) ==
  LET r1 == [ r EXCEPT !.lastError = error, !.errs = Append(@, error) ]
  IN  IF error.name = "AbortError" /\ externalAborted
      THEN [ r1 EXCEPT !.pc = "thrown", !.out = Thrown(RequestCancelled) ]
      ELSE IF error.status = 401 \/ error.status = 403
      THEN [ r1 EXCEPT !.pc = "thrown", !.out = Thrown(error) ]
      ELSE IF r.attempt < maxRetries
      THEN [ r1 EXCEPT !.pc = "sleep", !.delays = Append(@, retryDelay) ]
      ELSE [ r1 EXCEPT !.pc = "thrown", !.out = Thrown(r1.lastError) ]

\* The catch block of the loop, and the throw after the loop when the
\* failed attempt was the last one.  errs and delays record what the loop
\* caught and slept.
catchError(r, error, externalAborted) ==
  LET r1 == [ r EXCEPT !.lastError = error, !.errs = Append(@, error) ]
  IN  IF error.name = "AbortError" /\ externalAborted
      THEN [ r1 EXCEPT !.pc = "thrown", !.out = Thrown(RequestCancelled) ]
      ELSE IF error.status = 401 \/ error.status = 403
      THEN [ r1 EXCEPT !.pc = "thrown", !.out = Thrown(error) ]
      ELSE IF r.attempt < maxRetries
      THEN [ r1 EXCEPT !.pc = "sleep",
                       !.delays = Append(@, retryDelay * pow(retryBackoff, r.attempt)) ]
      ELSE [ r1 EXCEPT !.pc = "thrown", !.out = Thrown(r1.lastError) ]

\* A variant in which the caller of groqRequest resumes only when the call
\* returns: a call that throws leaves its caller waiting.
SettledOnReturn(r) == r.pc = "returned"

\* groqRequest has returned or thrown, and its caller has not resumed yet.
Settled(r) == r.pc \in {"returned", "thrown"}

\* Continuations that are already queued as promise jobs: a rejected call of
\* an aborted controller, a caller awaiting a settled groqRequest, a
\* Promise.all whose two promises are fulfilled.  The event loop runs them
\* before it takes the next timer, network or user event.
MicrotaskPending ==
  \E a \in Runs :
     \/ \E s \in Stages : Settled(req[a][s]) \/ (req[a][s].pc = "attempt" /\ req[a][s].aborted)
     \/ run[a].pc = "stage1" /\ eng[a]["cat"].pc = "done" /\ eng[a]["urg"].pc = "done"

\* The calls in the order in which they were made.
StageOrder == << "cat", "urg", "act" >>

CallOrder ==
  [ k \in 1..(MaxRuns * Len(StageOrder)) |->
      << ((k - 1) \div Len(StageOrder)) + 1, StageOrder[((k - 1) % Len(StageOrder)) + 1] >> ]

ImportPending(k) == req[CallOrder[k][1]][CallOrder[k][2]].pc = "import"

\* The position of call k among the calls that wait for the import.
importRank(k) == Cardinality({j \in 1..k : ImportPending(j)})

\* The dynamic import of groq-sdk is one module load: when it completes,
\* every getGroqInstance that waits for it resumes, in the order of the
\* calls, and each of them, having seen groq null before the await,
\* constructs a client and assigns it to groq.
ImportResolves ==
  /\ ~MicrotaskPending
  /\ \E k \in DOMAIN CallOrder : ImportPending(k)
  /\ LET n == importRank(Len(CallOrder))
     IN  /\ constructed' = constructed + n
         /\ groq' = constructed + n
         /\ req' = [a \in Runs |-> [s \in Stages |->
                      IF req[a][s].pc = "import"
                      THEN LET k == CHOOSE k \in DOMAIN CallOrder : CallOrder[k] = << a, s >>
                           IN  beginAttempt(req[a][s], 0, constructed + importRank(k))
                      ELSE req[a][s]]]
  /\ UNCHANGED << call, eng, run, started, abortControllerRef, isLoading,
                  results, history >>

\* The module load fails: every import that waits for it rejects, and
\* groqRequest rejects with it.
ImportFails ==
  /\ ~MicrotaskPending
  /\ \E k \in DOMAIN CallOrder : ImportPending(k)
  /\ req' = [a \in Runs |-> [s \in Stages |->
               IF req[a][s].pc = "import"
               THEN [req[a][s] EXCEPT !.pc = "thrown", !.out = Thrown(ImportError)]
               ELSE req[a][s]]]
  /\ UNCHANGED << call, groq, constructed, eng, run, started, abortControllerRef,
                  isLoading, results, history >>

\* The call of the attempt resolves with a response whose content is one of
\* contents, and groqRequest returns it.
AttemptReturns(a, s, contents) ==
  /\ ~MicrotaskPending
  /\ req[a][s].pc = "attempt"
  /\ ~req[a][s].aborted
  /\ \E c \in contents :
       req' = [req EXCEPT ![a][s] = [@ EXCEPT !.pc = "returned", !.out = Returned(c)]]
  /\ UNCHANGED << call, groq, constructed, eng, run, started, abortControllerRef,
                  isLoading, results, history >>

AttemptSucceeds(a, s) == AttemptReturns(a, s, Replies(s))

AttemptFails(a, s, errors) ==
  /\ ~MicrotaskPending
  /\ req[a][s].pc = "attempt"
  /\ ~req[a][s].aborted
  /\ \E e \in errors :
       req' = [req EXCEPT ![a][s] = catchError(@, e, run[a].aborted)]
  /\ UNCHANGED << call, groq, constructed, eng, run, started, abortControllerRef,
                  isLoading, results, history >>

\* The attempt's own timer fires: controller.abort(), the call rejects.
AttemptTimesOut(a, s) ==
  /\ ~MicrotaskPending
  /\ req[a][s].pc = "attempt"
  /\ ~req[a][s].aborted
  /\ req' = [req EXCEPT ![a][s] = catchError(@, AbortError, run[a].aborted)]
  /\ UNCHANGED << call, groq, constructed, eng, run, started, abortControllerRef,
                  isLoading, results, history >>

\* The controller was aborted through the listener on the external signal.
AttemptAborted(a, s) ==
  /\ req[a][s].pc = "attempt"
  /\ req[a][s].aborted
  /\ req' = [req EXCEPT ![a][s] = catchError(@, AbortError, run[a].aborted)]
  /\ UNCHANGED << call, groq, constructed, eng, run, started, abortControllerRef,
                  isLoading, results, history >>

\* sleep(delay) is over: the next loop iteration.
SleepEnds(a, s) ==
  /\ ~MicrotaskPending
  /\ req[a][s].pc = "sleep"
  /\ req' = [req EXCEPT ![a][s] =
               beginAttempt(@, @.attempt + 1, @.client)]
  /\ UNCHANGED << call, groq, constructed, eng, run, started, abortControllerRef,
                  isLoading, results, history >>

(***************************************************************************)
(* AnalyzePage: handleAnalyze and handleCancel                             *)
(***************************************************************************)
\* controller.abort() on the controller of run a: the signal fires once, and
\* the listeners abort the controllers of the attempts linked to it.
abortRuns(rn, a) ==
  IF rn[a].aborted THEN rn
  ELSE [rn EXCEPT ![a].aborted = TRUE, ![a].cancelledAt = rn[a].pc]

abortRequests(rq, rn, a) ==
  IF rn[a].aborted THEN rq
  ELSE [rq EXCEPT ![a] =
         [s \in Stages |->
            IF rq[a][s].pc = "attempt"
            THEN [rq[a][s] EXCEPT !.aborted = TRUE]
            ELSE rq[a][s]]]

\* The Cancel button, rendered while isLoading.
HandleCancel ==
  /\ ~MicrotaskPending
  /\ isLoading
  /\ abortControllerRef # 0
  /\ run' = abortRuns(run, abortControllerRef)
  /\ req' = abortRequests(req, run, abortControllerRef)
  /\ abortControllerRef' = 0
  /\ isLoading' = FALSE
  /\ UNCHANGED << call, groq, constructed, eng, started, results, history >>

\* A variant of handleAnalyze that awaits categorizeMessage before it calls
\* calculateUrgency.
HandleAnalyzeSequential(m) ==
  /\ ~MicrotaskPending
  /\ ~isLoading
  /\ started < MaxRuns
  /\ trim(m) # << >>
  /\ LET a == started + 1
     IN  /\ started' = a
         /\ run' = [run EXCEPT ![a] = [IdleRun EXCEPT !.pc = "stage1", !.message = m]]
         /\ req' = [req EXCEPT ![a]["cat"] = callGroqRequest(groq)]
         /\ eng' = [eng EXCEPT ![a]["cat"] = [IdleEngine EXCEPT !.pc = "waiting"]]
         /\ abortControllerRef' = a
         /\ isLoading' = TRUE
         /\ results' = << >>
  /\ UNCHANGED << call, groq, constructed, history >>

\* The Analyze button (disabled while isLoading), up to the await of
\* Promise.all: both engines are called, and each runs into groqRequest.
HandleAnalyze(m) ==
  /\ ~MicrotaskPending
  /\ ~isLoading
  /\ started < MaxRuns
  /\ trim(m) # << >>
  /\ LET a    == started + 1
         old  == abortControllerRef
         run1 == IF old # 0 THEN abortRuns(run, old) ELSE run
         req1 == IF old # 0 THEN abortRequests(req, run, old) ELSE req
     IN  /\ started' = a
         /\ run' = [run1 EXCEPT ![a] = [IdleRun EXCEPT !.pc = "stage1", !.message = m]]
         /\ req' = [req1 EXCEPT ![a]["cat"] = callGroqRequest(groq),
                                ![a]["urg"] = callGroqRequest(groq)]
         /\ eng' = [eng EXCEPT ![a]["cat"] = [IdleEngine EXCEPT !.pc = "waiting"],
                               ![a]["urg"] = [IdleEngine EXCEPT !.pc = "waiting"]]
         /\ abortControllerRef' = a
         /\ isLoading' = TRUE
         /\ results' = << >>
  /\ UNCHANGED << call, groq, constructed, history >>

\* The Analyze button in a session of at most RunLimit analyses.
AnalyzeClick(m) == started < RunLimit /\ HandleAnalyze(m)

\* A variant of the step in which the confidence of a fallback result
\* depends on whether the client handle has been constructed.
CategorizeSettlesByClient(a) ==
  /\ eng[a]["cat"].pc = "waiting"
  /\ Settled(req[a]["cat"])
  /\ LET r == categorizeMessage(run[a].message, req[a]["cat"].out)
     IN  eng' = [eng EXCEPT ![a]["cat"] =
                   [pc |-> "done",
                    result |-> IF r.via = "fallback" /\ groq = 0
                               THEN [r EXCEPT !.confidence = JNum(40)] ELSE r]]
  /\ req' = [req EXCEPT ![a]["cat"] = ConsumedRequest]
  /\ UNCHANGED << call, groq, constructed, run, started, abortControllerRef,
                  isLoading, results, history >>

\* categorizeMessage resumes after its await of groqRequest; a fallback
\* result gets the reasoning template that Math.random draws.
CategorizeSettles(a) ==
  /\ eng[a]["cat"].pc = "waiting"
  /\ Settled(req[a]["cat"])
  /\ LET r == categorizeMessage(run[a].message, req[a]["cat"].out)
     IN  \E random \in 1..TemplateCount :
           eng' = [eng EXCEPT ![a]["cat"] =
                     [pc |-> "done",
                      result |-> IF r.via = "fallback"
                                 THEN [r EXCEPT !.reasoning =
                                         generateFallbackReasoning(r.category, random)]
                                 ELSE r]]
  /\ req' = [req EXCEPT ![a]["cat"] = ConsumedRequest]
  /\ UNCHANGED << call, groq, constructed, run, started, abortControllerRef,
                  isLoading, results, history >>

\* calculateUrgency resumes after its await of groqRequest.
UrgencySettles(a) ==
  /\ eng[a]["urg"].pc = "waiting"
  /\ Settled(req[a]["urg"])
  /\ eng' = [eng EXCEPT ![a]["urg"] =
               [pc |-> "done",
                result |-> calculateUrgency(run[a].message, NoCategory, req[a]["urg"].out)]]
  /\ req' = [req EXCEPT ![a]["urg"] = ConsumedRequest]
  /\ UNCHANGED << call, groq, constructed, run, started, abortControllerRef,
                  isLoading, results, history >>

\* The catch and finally blocks of handleAnalyze.
catchOutcome(error) ==
  IF error.message = "Request cancelled" THEN "cancelled" ELSE "failed"

\* The first stage of run a that rejected, if any.
Rejected(a, stages) == {s \in stages : eng[a][s].pc = "done" /\ eng[a][s].result.error # NoError}

\* handleAnalyze resumes after Promise.all: the catch block if a stage
\* rejected, else the call of getRecommendedAction with the category and the
\* urgency level of the two results.
Stage1Joins(a) ==
  /\ run[a].pc = "stage1"
  /\ \/ Rejected(a, {"cat", "urg"}) # {}
     \/ eng[a]["cat"].pc = "done" /\ eng[a]["urg"].pc = "done"
  /\ IF Rejected(a, {"cat", "urg"}) # {}
     THEN LET s == CHOOSE s \in Rejected(a, {"cat", "urg"}) : TRUE
          IN  /\ run' = [run EXCEPT ![a].pc = "done",
                                    ![a].outcome = catchOutcome(eng[a][s].result.error)]
              /\ isLoading' = FALSE
              /\ abortControllerRef' = 0
              /\ UNCHANGED << req, eng >>
     ELSE /\ run' = [run EXCEPT ![a].pc = "stage2",
                                ![a].actArgs = [category |-> eng[a]["cat"].result.category,
                                                urgency  |-> eng[a]["urg"].result.level]]
          /\ req' = [req EXCEPT ![a]["act"] = callGroqRequest(groq)]
          /\ eng' = [eng EXCEPT ![a]["act"] = [IdleEngine EXCEPT !.pc = "waiting"]]
          /\ UNCHANGED << isLoading, abortControllerRef >>
  /\ UNCHANGED << call, groq, constructed, started, results, history >>

\* The analysisResult assembled by handleAnalyze; run stands for the timestamp.
analysisResult(a, categoryResult, urgencyResult, actionResult) ==
  [ run               |-> a,
    message           |-> run[a].message,
    category          |-> categoryResult.category,
    urgency           |-> urgencyResult.level,
    urgencyScore      |-> urgencyResult.score,
    recommendedAction |-> actionResult.action,
    escalate          |-> actionResult.escalate,
    escalateReason    |-> actionResult.escalateReason ]

\* getRecommendedAction resumes after its await of groqRequest, and
\* handleAnalyze after its await of getRecommendedAction, through finally.
ActionSettles(a) ==
  /\ run[a].pc = "stage2"
  /\ eng[a]["act"].pc = "waiting"
  /\ Settled(req[a]["act"])
  /\ \E actionResult \in { getRecommendedAction(run[a].message, run[a].actArgs.category,
                                                 run[a].actArgs.urgency, req[a]["act"].out) } :
         /\ eng' = [eng EXCEPT ![a]["act"] = [pc |-> "done", result |-> actionResult]]
         /\ IF actionResult.error # NoError
            THEN /\ run' = [run EXCEPT ![a].pc = "done",
                                       ![a].outcome = catchOutcome(actionResult.error)]
                 /\ UNCHANGED << results, history >>
            ELSE LET rec == analysisResult(a, eng[a]["cat"].result,
                                           eng[a]["urg"].result, actionResult)
                 IN  /\ run' = [run EXCEPT ![a].pc = "done", ![a].outcome = "completed"]
                     /\ results' = << rec >>
                     /\ history' = Append(history, rec)
  /\ req' = [req EXCEPT ![a]["act"] = ConsumedRequest]
  /\ isLoading' = FALSE
  /\ abortControllerRef' = 0
  /\ UNCHANGED << call, groq, constructed, started >>

Next ==
  \/ \E m \in Messages : AnalyzeClick(m)
  \/ HandleCancel
  \/ ImportResolves
  \/ ImportFails
  \/ \E a \in Runs, s \in Stages : AttemptSucceeds(a, s)
  \/ \E a \in Runs, s \in Stages : AttemptFails(a, s, PageErrors)
  \/ \E a \in Runs, s \in Stages : AttemptTimesOut(a, s)
  \/ \E a \in Runs, s \in Stages : AttemptAborted(a, s)
  \/ \E a \in Runs, s \in Stages : SleepEnds(a, s)
  \/ \E a \in Runs : CategorizeSettles(a)
  \/ \E a \in Runs : UrgencySettles(a)
  \/ \E a \in Runs : Stage1Joins(a)
  \/ \E a \in Runs : ActionSettles(a)

Spec == Init /\ [][Next]_vars

\* The call client under every failure of the service: the first two stages
\* of a run meet a service that rejects their credentials, the third stage
\* meets every outcome.
NextRequest ==
  \/ AnalyzeClick(PaymentMessage)
  \/ HandleCancel
  \/ ImportResolves
  \/ ImportFails
  \/ \E a \in Runs : AttemptSucceeds(a, "act")
  \/ \E a \in Runs, s \in {"cat", "urg"} : AttemptFails(a, s, {Unauthorized})
  \/ \E a \in Runs : AttemptFails(a, "act", ServiceErrors)
  \/ \E a \in Runs : AttemptTimesOut(a, "act")
  \/ \E a \in Runs, s \in Stages : AttemptAborted(a, s)
  \/ \E a \in Runs : SleepEnds(a, "act")
  \/ \E a \in Runs : CategorizeSettles(a)
  \/ \E a \in Runs : UrgencySettles(a)
  \/ \E a \in Runs : Stage1Joins(a)
  \/ \E a \in Runs : ActionSettles(a)

SpecRequest == Init /\ [][NextRequest]_vars

\* The steps of NextRequest that the event loop takes on its own: the module
\* load ends, an attempt is answered, fails, or is aborted by its timer or
\* by the token, a delay is over, a continuation that is ready runs.
EventLoopStep ==
  \/ ImportResolves
  \/ ImportFails
  \/ \E a \in Runs : AttemptSucceeds(a, "act")
  \/ \E a \in Runs, s \in {"cat", "urg"} : AttemptFails(a, s, {Unauthorized})
  \/ \E a \in Runs : AttemptFails(a, "act", ServiceErrors)
  \/ \E a \in Runs : AttemptTimesOut(a, "act")
  \/ \E a \in Runs, s \in Stages : AttemptAborted(a, s)
  \/ \E a \in Runs : SleepEnds(a, "act")
  \/ \E a \in Runs : CategorizeSettles(a)
  \/ \E a \in Runs : UrgencySettles(a)
  \/ \E a \in Runs : Stage1Joins(a)
  \/ \E a \in Runs : ActionSettles(a)

\* The event loop does not stop while one of these steps is possible; the
\* clicks on Analyze and Cancel may come at any time, or never.
SpecRequestLive == SpecRequest /\ WF_vars(EventLoopStep)

\* The sequencing of the stages: every stage meets a service that answers,
\* or rejects the credentials, at the first attempt.
NextStages ==
  \/ \E m \in Messages : AnalyzeClick(m)
  \/ HandleCancel
  \/ ImportResolves
  \/ ImportFails
  \/ \E a \in Runs, s \in Stages : AttemptSucceeds(a, s)
  \/ \E a \in Runs, s \in Stages : AttemptFails(a, s, {Unauthorized})
  \/ \E a \in Runs, s \in Stages : AttemptAborted(a, s)
  \/ \E a \in Runs : CategorizeSettles(a)
  \/ \E a \in Runs : UrgencySettles(a)
  \/ \E a \in Runs : Stage1Joins(a)
  \/ \E a \in Runs : ActionSettles(a)

SpecStages == Init /\ [][NextStages]_vars

\* Every outcome of the remote call but cancellation, for each stage: a
\* reply with any content, a timeout, a transport failure, a rejection of
\* the credentials, a failure to load the client.
NextOutcomes ==
  \/ AnalyzeClick(PaymentMessage)
  \/ ImportResolves
  \/ ImportFails
  \/ \E a \in Runs, s \in Stages : AttemptReturns(a, s, Contents)
  \/ \E a \in Runs, s \in Stages : AttemptFails(a, s, {ConnectionError, Forbidden})
  \/ \E a \in Runs, s \in Stages : AttemptTimesOut(a, s)
  \/ \E a \in Runs, s \in Stages : SleepEnds(a, s)
  \/ \E a \in Runs : CategorizeSettles(a)
  \/ \E a \in Runs : UrgencySettles(a)
  \/ \E a \in Runs : Stage1Joins(a)
  \/ \E a \in Runs : ActionSettles(a)

SpecOutcomes == Init /\ [][NextOutcomes]_vars

\* Overlapping runs: Analyze can be clicked again as soon as isLoading is
\* false, whatever the earlier runs are doing.  Every stage meets a service
\* that answers with one JSON object, or rejects the credentials.
NextOverlap ==
  \/ \E m \in Messages : HandleAnalyze(m)
  \/ HandleCancel
  \/ ImportResolves
  \/ ImportFails
  \/ \E a \in Runs, s \in Stages : AttemptReturns(a, s, {TextContent(Braced(ReplyMembers))})
  \/ \E a \in Runs, s \in Stages : AttemptFails(a, s, {Unauthorized})
  \/ \E a \in Runs, s \in Stages : AttemptAborted(a, s)
  \/ \E a \in Runs : CategorizeSettles(a)
  \/ \E a \in Runs : UrgencySettles(a)
  \/ \E a \in Runs : Stage1Joins(a)
  \/ \E a \in Runs : ActionSettles(a)

SpecOverlap == Init /\ [][NextOverlap]_vars

\* The page with the remote service unavailable: the client cannot be
\* loaded, or every attempt of every call ends with a connection error.
NextFallback ==
  \/ \E m \in Messages \cup TriggerMessages : AnalyzeClick(m)
  \/ ImportResolves
  \/ ImportFails
  \/ \E a \in Runs, s \in Stages : AttemptFails(a, s, {ConnectionError})
  \/ \E a \in Runs, s \in Stages : SleepEnds(a, s)
  \/ \E a \in Runs : CategorizeSettles(a)
  \/ \E a \in Runs : UrgencySettles(a)
  \/ \E a \in Runs : Stage1Joins(a)
  \/ \E a \in Runs : ActionSettles(a)

SpecFallback == Init /\ [][NextFallback]_vars

\* Analyses one after the other on a page whose service rejects every call,
\* with or without a client handle.
NextRepeat ==
  \/ \E m \in Messages : HandleAnalyze(m)
  \/ ImportResolves
  \/ ImportFails
  \/ \E a \in Runs, s \in Stages : AttemptFails(a, s, {Unauthorized})
  \/ \E a \in Runs : CategorizeSettles(a)
  \/ \E a \in Runs : UrgencySettles(a)
  \/ \E a \in Runs : Stage1Joins(a)
  \/ \E a \in Runs : ActionSettles(a)

SpecRepeat == Init /\ [][NextRepeat]_vars

\* Replies in which braces follow the first JSON object: a second object
\* after some prose, and a closing brace in the trailing prose.
BraceContents ==
  { TextContent(Braced(ReplyMembers) \o <<TrailProse>> \o Braced(<< >>)),
    TextContent(Braced(ReplyMembers) \o <<TrailProse, RBrace>>),
    TextContent(<<LeadProse>> \o Braced(ReplyMembers) \o Braced(ReplyMembers)) }

\* The decoding of such replies: every stage meets a service that answers
\* with one of them, or rejects the credentials, or cannot be loaded.
NextBraces ==
  \/ \E m \in Messages : AnalyzeClick(m)
  \/ ImportResolves
  \/ ImportFails
  \/ \E a \in Runs, s \in Stages : AttemptReturns(a, s, BraceContents)
  \/ \E a \in Runs, s \in Stages : AttemptFails(a, s, PageErrors)
  \/ \E a \in Runs : CategorizeSettles(a)
  \/ \E a \in Runs : UrgencySettles(a)
  \/ \E a \in Runs : Stage1Joins(a)
  \/ \E a \in Runs : ActionSettles(a)

SpecBraces == Init /\ [][NextBraces]_vars

(***************************************************************************)
(* The rule-based functions called from outside the page                   *)
(***************************************************************************)
\* The number of keywords in a message handed to getFallbackCategorization.
MaxWords == 3

\* Keywords of the four categories, of one and of two words.
CategoryWords ==
  << <<"b","i","l","l">>, <<"r","e","f","u","n","d">>, <<"c","r","e","d","i","t"," ","c","a","r","d">>, <<"p","a","y","m","e","n","t">>,
     <<"b","u","g">>, <<"c","r","a","s","h">>, <<"n","o","t"," ","w","o","r","k","i","n","g">>, <<"f","a","i","l">>,
     <<"w","i","s","h">>, <<"r","o","a","d","m","a","p">>, <<"w","o","u","l","d"," ","l","i","k","e">>,
     <<"h","e","l","p">>, <<"h","o","w"," ","t","o">> >>

\* One word for each signal that getFallbackUrgency reads: a critical
\* keyword, system impact, business impact, negative and positive sentiment,
\* two exclamation marks and a question mark.
SignalWords ==
  << <<"o","u","t","a","g","e">>, <<"e","v","e","r","y","o","n","e">>, <<"r","e","v","e","n","u","e">>, <<"a","n","g","r","y">>,
     <<"t","h","a","n","k","s">>, <<"!">>, <<"!">>, <<"?">> >>

\* One keyword of each escalation trigger group, in the order of the groups.
TriggerWords ==
  << <<"h","a","c","k">>, <<"l","a","w","y","e","r">>, <<"c","a","n","c","e","l">>, <<"v","i","p">>, <<"e","v","e","r","y","o","n","e">> >>

\* The words of the list whose indices are in chosen, from index i on,
\* separated by blanks.
RECURSIVE sentence(_, _, _)
sentence(words, chosen, i) ==
  IF i > Len(words) THEN << >>
  ELSE IF i \in chosen
       THEN words[i] \o (IF \E j \in chosen : j > i THEN <<" ">> ELSE << >>)
            \o sentence(words, chosen, i + 1)
       ELSE sentence(words, chosen, i + 1)

\* The messages of at most n words of a list.
Sentences(words, n) ==
  { sentence(words, chosen, 1) :
      chosen \in {c \in SUBSET (1..Len(words)) : Cardinality(c) <= n} }

\* getFallbackCategorization returns, with the reasoning template that
\* Math.random draws.
GetFallbackCategorizationReturns ==
  /\ call.pc = "called"
  /\ call.fn = "getFallbackCategorization"
  /\ LET r == getFallbackCategorization(call.message)
     IN  \E random \in 1..TemplateCount :
           call' = [call EXCEPT !.pc = "returned",
                                !.result = [r EXCEPT !.reasoning =
                                              generateFallbackReasoning(r.category, random)]]
  /\ UNCHANGED << groq, constructed, req, eng, run, started,
                  abortControllerRef, isLoading, results, history >>

\* getFallbackUrgency returns: calculateUrgency with its category argument
\* when the remote call has failed, calculateUrgencySync with category null.
GetFallbackUrgencyReturns ==
  /\ call.pc = "called"
  /\ call.fn = "getFallbackUrgency"
  /\ call' = [call EXCEPT !.pc = "returned",
                          !.result = getFallbackUrgency(call.message, call.category,
                                                        detectSignals(call.message))]
  /\ UNCHANGED << groq, constructed, req, eng, run, started,
                  abortControllerRef, isLoading, results, history >>

\* getFallbackRecommendation returns: shouldEscalate, and getRecommendedAction
\* when the remote call has failed.
GetFallbackRecommendationReturns ==
  /\ call.pc = "called"
  /\ call.fn = "getFallbackRecommendation"
  /\ call' = [call EXCEPT !.pc = "returned",
                          !.result = getFallbackRecommendation(call.message, call.category,
                                                               call.urgency)]
  /\ UNCHANGED << groq, constructed, req, eng, run, started,
                  abortControllerRef, isLoading, results, history >>

\* A rule-based function has been called with a message made of keywords,
\* with a category or null, and with an urgency level.
InitRules ==
  /\ PageInit
  /\ \/ \E m \in Sentences(CategoryWords, MaxWords) :
          call = [NoCall EXCEPT !.pc = "called", !.fn = "getFallbackCategorization",
                                !.message = m]
     \/ \E m \in Sentences(SignalWords, Len(SignalWords)),
           c \in getAvailableCategories \cup {NoCategory} :
          call = [NoCall EXCEPT !.pc = "called", !.fn = "getFallbackUrgency",
                                !.message = m, !.category = c]
     \/ \E m \in Sentences(TriggerWords, Len(TriggerWords)),
           c \in getAvailableCategories \cup {NoCategory},
           u \in {JStr("High"), JStr("Medium"), JStr("Low")} :
          call = [NoCall EXCEPT !.pc = "called", !.fn = "getFallbackRecommendation",
                                !.message = m, !.category = c, !.urgency = u]

NextRules ==
  \/ GetFallbackCategorizationReturns
  \/ GetFallbackUrgencyReturns
  \/ GetFallbackRecommendationReturns

SpecRules == InitRules /\ [][NextRules]_vars

(***************************************************************************)
(* Properties                                                              *)
(***************************************************************************)
Calls == Runs \X Stages

IsAuth(e) == e.status = 401 \/ e.status = 403

\* C1: when the token of a run fires while categorization or urgency is
\* still in flight, the run never sets results, never appends to the
\* history, and its getRecommendedAction issues no remote call.
C1_CancelBeforeActionYieldsNothing ==
  \A a \in Runs :
    run[a].cancelledAt = "stage1" =>
      /\ \A i \in 1..Len(history) : history[i].run # a
      /\ \A i \in 1..Len(results) : results[i].run # a
      /\ req[a]["act"].pc # "attempt"

\* C2: an engine whose groqRequest threw 'Request cancelled' hands that
\* cancellation to its caller, and returns no result of its fallback path.
C2_CancellationPropagates ==
  [][ \A c \in Calls :
        ( /\ req[c[1]][c[2]].pc = "thrown"
          /\ req[c[1]][c[2]].out.error = RequestCancelled
          /\ eng[c[1]][c[2]].pc = "waiting"
          /\ eng'[c[1]][c[2]].pc = "done" )
        => /\ eng'[c[1]][c[2]].result.error = RequestCancelled
           /\ eng'[c[1]][c[2]].result.via # "fallback" ]_vars

\* C3: once the token of a run has fired, every attempt of that run that is
\* in flight has its controller aborted: the attempt in flight at the time is
\* aborted, and no attempt is begun afterwards (after a backoff delay, or as
\* the first attempt of a call).
C3_NoAttemptOnceCancelled ==
  \A c \in Calls :
    (run[c[1]].aborted /\ req[c[1]][c[2]].pc = "attempt") => req[c[1]][c[2]].aborted

\* The step ends an attempt by an abort that its own timer made.
TimerAbortStep(a, s) ==
  /\ req[a][s].pc = "attempt"
  /\ ~req[a][s].aborted
  /\ Len(req'[a][s].errs) = Len(req[a][s].errs) + 1
  /\ req'[a][s].errs[Len(req'[a][s].errs)] = AbortError

\* The step ends an attempt whose controller the token aborted.
TokenAbortStep(a, s) ==
  /\ req[a][s].pc = "attempt"
  /\ req[a][s].aborted
  /\ req'[a][s] # req[a][s]

\* C4: an attempt aborted by its own timer while the token is untriggered is
\* retried (or, as the last attempt, thrown as the timeout) and never
\* surfaces as 'Request cancelled'; an attempt aborted by the token is thrown
\* as 'Request cancelled', with no retry and no delay.
C4_TimeoutIsNotCancellation ==
  [][ \A c \in Calls :
        LET a == c[1]
            s == c[2]
        IN  /\ (TimerAbortStep(a, s) /\ ~run[a].aborted) =>
                 /\ req'[a][s].out.error # RequestCancelled
                 /\ IF req[a][s].attempt < maxRetries
                    THEN req'[a][s].pc = "sleep"
                    ELSE req'[a][s].pc = "thrown" /\ req'[a][s].out = Thrown(AbortError)
            /\ TokenAbortStep(a, s) =>
                 /\ req'[a][s].pc = "thrown"
                 /\ req'[a][s].out = Thrown(RequestCancelled)
                 /\ req'[a][s].delays = req[a][s].delays ]_vars

\* A call whose first attempt timed out and was retried, and whose second
\* attempt the token aborted.
C4_Witness ==
  \E c \in Calls :
    LET r == req[c[1]][c[2]]
    IN  /\ r.pc = "thrown"
        /\ r.out.error = RequestCancelled
        /\ r.aborted
        /\ Len(r.errs) = 2
        /\ r.errs[1] = AbortError
        /\ Len(r.delays) = 1

AllTimeouts(r) == r.errs # << >> /\ \A i \in 1..Len(r.errs) : r.errs[i] = AbortError

\* C5: with no cancellation, a call that throws after timeouts only has made
\* exactly 3 attempts, has slept two delays of which the second is not the
\* shorter, and throws the timeout error.
C5_ThreeAttemptsOnTimeouts ==
  \A c \in Calls :
    LET r == req[c[1]][c[2]]
    IN  (r.pc = "thrown" /\ AllTimeouts(r) /\ ~run[c[1]].aborted) =>
          /\ Len(r.errs) = 3
          /\ r.attempt = 2
          /\ Len(r.delays) = 2
          /\ r.delays[1] <= r.delays[2]
          /\ r.out = Thrown(AbortError)

C5_Witness ==
  \E c \in Calls :
    LET r == req[c[1]][c[2]]
    IN  r.pc = "thrown" /\ AllTimeouts(r) /\ ~run[c[1]].aborted /\ Len(r.errs) = 3

\* C6: an authentication failure is the last error a call catches: the call
\* throws it at once, with no further attempt and no delay after it, so that
\* on the first attempt it makes 1 attempt in total.
C6_AuthFailureSurfacesAtOnce ==
  \A c \in Calls :
    LET r == req[c[1]][c[2]]
    IN  \A i \in 1..Len(r.errs) :
          IsAuth(r.errs[i]) =>
            /\ i = Len(r.errs)
            /\ r.pc = "thrown"
            /\ r.out = Thrown(r.errs[i])
            /\ r.attempt = i - 1
            /\ Len(r.delays) = i - 1

\* An authentication failure on the first attempt of a call.
C6_Witness ==
  \E c \in Calls :
    LET r == req[c[1]][c[2]]
    IN  /\ r.pc = "thrown"
        /\ r.errs = << Unauthorized >>
        /\ r.attempt = 0
        /\ r.delays = << >>

\* The call has used up its attempts on retryable errors.
Exhausted(r) ==
  /\ r.pc = "thrown"
  /\ Len(r.errs) = maxRetries + 1
  /\ \A i \in 1..Len(r.errs) : ~IsAuth(r.errs[i])
  /\ r.out.error # RequestCancelled

\* C7: when every attempt failed with a retryable error, the error thrown is
\* the error of the last attempt.
C7_LastErrorIsThrown ==
  \A c \in Calls :
    LET r == req[c[1]][c[2]]
    IN  Exhausted(r) => r.out = Thrown(r.errs[Len(r.errs)])

\* An exhausted call whose three attempts failed with three different errors.
C7_Witness ==
  \E c \in Calls :
    LET r == req[c[1]][c[2]]
    IN  /\ Exhausted(r)
        /\ r.errs[1] # r.errs[3]
        /\ r.errs[2] # r.errs[3]
        /\ r.errs[1] # r.errs[2]

\* C8: the client handle is constructed at most once, and every call uses
\* the handle the module holds.
C8_HandleConstructedOnce ==
  /\ constructed <= 1
  /\ \A c \in Calls :
       req[c[1]][c[2]].client # 0 => req[c[1]][c[2]].client = groq

\* C9: every result of calculateUrgency has an integer score in 0..100 and
\* the level that the thresholds derive from the score.
C9_LevelDeterminedByScore ==
  \A a \in Runs :
    eng[a]["urg"].pc = "done" =>
      LET u == eng[a]["urg"].result
      IN  /\ u.score.t = "num"
          /\ u.score.n \in 0..100
          /\ u.level = JStr(levelOfScore(u.score.n))

\* C10: categorization and urgency are both started before either of them
\* completes, and the action stage is started only when both have completed,
\* with the category and the urgency level they returned.
C10_StageOrder ==
  \A a \in Runs :
    /\ (eng[a]["cat"].pc = "done" \/ eng[a]["urg"].pc = "done") =>
         (eng[a]["cat"].pc # "none" /\ eng[a]["urg"].pc # "none")
    /\ (eng[a]["act"].pc # "none" \/ req[a]["act"].pc # "none") =>
         /\ eng[a]["cat"].pc = "done"
         /\ eng[a]["urg"].pc = "done"
         /\ run[a].actArgs = [ category |-> eng[a]["cat"].result.category,
                               urgency  |-> eng[a]["urg"].result.level ]

\* The action stage in flight on the results of two answered calls.
C10_Witness ==
  \E a \in Runs :
    /\ req[a]["act"].pc = "attempt"
    /\ eng[a]["cat"].result.via = "ai"
    /\ eng[a]["urg"].result.via = "ai"
    /\ run[a].actArgs.category = TechnicalProblem

\* C11: with no cancellation, whatever the remote call ends with, each
\* engine returns a result and throws nothing, and handleAnalyze never takes
\* the branch of its catch block that reports a failure.
C11_EnginesNeverThrow ==
  /\ \A c \in Calls :
       eng[c[1]][c[2]].pc = "done" =>
         /\ eng[c[1]][c[2]].result.error = NoError
         /\ eng[c[1]][c[2]].result.via \in {"ai", "prose", "fallback"}
  /\ \A a \in Runs : run[a].outcome \in {"none", "completed"}

\* A run that completed on the fallback result of each of its three engines,
\* the client having been loaded.
C11_Witness ==
  \E a \in Runs :
    /\ run[a].outcome = "completed"
    /\ groq # 0
    /\ \A s \in Stages : eng[a][s].result.via = "fallback"
    /\ Len(history) = 1

\* C12: when handleAnalyze is invoked while an earlier run has not finished,
\* the signal of the earlier run has fired; and a run after which another
\* run was started never again sets results or appends to the history.
C12_SupersededRunIsSilent ==
  [][ \A a \in Runs :
        /\ (started' = started + 1 /\ run[a].pc \in {"stage1", "stage2"}) => run'[a].aborted
        /\ a < started =>
             /\ (results' # results /\ results' # << >>) => results'[1].run # a
             /\ Len(history') > Len(history) => history'[Len(history')].run # a ]_vars

\* The reasons of the trigger groups in the order security, legal,
\* churn risk, VIP, system-wide.
TriggerReasons ==
  << "Security concern requires immediate escalation to security team",
     "Legal mention requires escalation to legal/compliance team",
     "Churn risk - escalate to retention team",
     "Executive/VIP customer requires priority handling",
     "System-wide issue affecting multiple users" >>

\* The trigger groups of which the message of run a holds a keyword.
MatchingGroups(a) ==
  { g \in 1..Len(escalationTriggers) :
      someIncluded(toLowerCase(run[a].message), escalationTriggers[g].keywords) }

\* C13: a fallback recommendation for a message that matches trigger groups
\* escalates with the reason of the matching group of lowest index, the
\* groups being in the order security, legal, churn risk, VIP, system-wide.
C13_FirstTriggerGroupWins ==
  \A a \in Runs :
    (eng[a]["act"].pc = "done" /\ eng[a]["act"].result.via = "fallback"
       /\ MatchingGroups(a) # {}) =>
      LET g == CHOOSE g \in MatchingGroups(a) : \A h \in MatchingGroups(a) : g <= h
      IN  /\ eng[a]["act"].result.escalate = JBool(TRUE)
          /\ eng[a]["act"].result.escalateReason = JStr(TriggerReasons[g])

\* A fallback recommendation for a message with a security keyword and a VIP
\* keyword, the VIP keyword coming first in the text.
C13_Witness ==
  \E a \in Runs :
    /\ eng[a]["act"].pc = "done"
    /\ eng[a]["act"].result.via = "fallback"
    /\ MatchingGroups(a) = {1, 4}
    /\ includes(toLowerCase(run[a].message), <<"v","i","p"," ","c","u","s","t","o","m","e","r">>)

\* C14: every result of getRecommendedAction has a boolean escalate, and an
\* escalateReason that is non-null exactly when escalate is true.
C14_ReasonIffEscalate ==
  \A a \in Runs :
    eng[a]["act"].pc = "done" =>
      LET r == eng[a]["act"].result
      IN  /\ r.escalate.t = "bool"
          /\ (r.escalateReason # JNull) <=> (r.escalate = JBool(TRUE))

\* C15: for a JSON object text J, parseJsonResponse gives for J in markdown
\* fencing, and for J with brace-free prose before and/or after it, the
\* object it gives for J alone, which is the object J denotes; for a text of
\* prose alone it gives null.
C15_DecodingIgnoresWrapping ==
  \A c \in Calls :
    LET r == req[c[1]][c[2]]
    IN  r.pc = "returned" =>
          /\ \A ms \in {ReplyMembers, << >>} :
                r.out.content \in JsonContents(ms) =>
                  /\ parseJsonResponse(r.out.content) = parseJsonResponse(TextContent(Braced(ms)))
                  /\ parseJsonResponse(r.out.content) = ParsedObject(ms)
          /\ ( /\ ~r.out.content.isNull
               /\ \A i \in 1..Len(r.out.content.text) : r.out.content.text[i].t = "text" )
             => parseJsonResponse(r.out.content) = ParsedNull

\* groqRequest has returned a reply that holds the JSON object between two
\* pieces of prose.
C15_Witness ==
  \E c \in Calls :
    LET r == req[c[1]][c[2]]
    IN  /\ r.pc = "returned"
        /\ r.out.content = TextContent(<<LeadProse>> \o Braced(ReplyMembers) \o <<TrailProse>>)

\* C16: for every content that groqRequest returns, a text of any shape or
\* null, parseJsonResponse yields an object or null and throws nothing.
C16_DecodingNeverThrows ==
  \A c \in Calls :
    req[c[1]][c[2]].pc = "returned" =>
      parseJsonResponse(req[c[1]][c[2]].out.content).kind \in {"object", "null"}

\* C17: every result of categorizeMessage has one of the five categories
\* and a numeric confidence between 0 and 1 (0..100 hundredths).
C17_CategoryResultWellFormed ==
  \A a \in Runs :
    eng[a]["cat"].pc = "done" =>
      LET r == eng[a]["cat"].result
      IN  /\ r.category \in getAvailableCategories
          /\ r.confidence.t = "num"
          /\ r.confidence.n \in 0..100

\* The run completed with the fallback result of each of its three engines.
AllFallback(a) ==
  /\ run[a].outcome = "completed"
  /\ \A s \in Stages : eng[a][s].result.via = "fallback"

\* The record a completed run appended to the history.
RecordOf(a) == history[CHOOSE i \in 1..Len(history) : history[i].run = a]

\* C18: with the service unavailable for the three stages, the analysis of
\* "Our payment failed and we can't access our account" gives category
\* Billing Issue, urgency level High with a score of at least 70, and an
\* escalation with the high-urgency reason, no trigger group having matched;
\* the payment + fail bonus has been added, which shows in the confidence 0.8.
C18_PaymentFailureScenario ==
  \A a \in Runs :
    (AllFallback(a) /\ run[a].message = PaymentMessage) =>
      /\ RecordOf(a).category = BillingIssue
      /\ eng[a]["cat"].result.confidence = JNum(80)
      /\ RecordOf(a).urgency = JStr("High")
      /\ RecordOf(a).urgencyScore.t = "num" /\ RecordOf(a).urgencyScore.n >= 70
      /\ RecordOf(a).escalate = JBool(TRUE)
      /\ RecordOf(a).escalateReason = JStr(HighUrgencyReason)
      /\ MatchingGroups(a) = {}

\* The history holds the record of such an analysis.
C18_Witness ==
  \E a \in Runs :
    AllFallback(a) /\ run[a].message = PaymentMessage /\ RecordOf(a).urgency = JStr("High")

\* C19: with the service unavailable for the three stages, the analysis of
\* "Can you add a dark mode feature?" gives category Feature Request, an
\* urgency score lowered by the Feature Request adjustment with level Low,
\* and no escalation.
C19_DarkModeScenario ==
  \A a \in Runs :
    (AllFallback(a) /\ run[a].message = DarkModeMessage) =>
      /\ RecordOf(a).category = FeatureRequest
      /\ RecordOf(a).urgencyScore =
           JNum(clampScore(rawFallbackScore(FeatureRequest, signalsOf(DarkModeMessage))))
      /\ RecordOf(a).urgency = JStr("Low")
      /\ RecordOf(a).escalate = JBool(FALSE)

DecodesToForeignCategory(a) ==
  /\ eng[a]["cat"].pc = "waiting"
  /\ req[a]["cat"].pc = "returned"
  /\ LET parsed == parseJsonResponse(req[a]["cat"].out.content)
     IN  /\ parsed.kind = "object"
         /\ ~( field(parsed, "category").t = "str"
               /\ field(parsed, "category").s \in validCategories )

\* C21: when the reply decodes to an object whose category is none of the
\* four fixed names, categorizeMessage returns what the search of the raw
\* reply text for a category name returns: the first name found with
\* confidence 0.7, else the result of keyword scoring.
C21_ForeignCategorySearchesProse ==
  [][ \A a \in Runs :
        (DecodesToForeignCategory(a) /\ eng'[a]["cat"].pc = "done") =>
          LET e == extractCategoryFromProse(req[a]["cat"].out.content, run[a].message)
              r == eng'[a]["cat"].result
          IN  /\ r.category = e.category
              /\ r.confidence = e.confidence
              /\ r.via = e.via ]_vars

\* The nesting depth after each token of text from position i on, depth
\* being the depth before position i: the position at which it first
\* returns to 0, or 0 if it never does.
RECURSIVE closingPosition(_, _, _)
closingPosition(text, i, depth) ==
  IF i > Len(text) THEN 0
  ELSE LET d == depth + (IF text[i].t = "{" THEN 1 ELSE IF text[i].t = "}" THEN 0 - 1 ELSE 0)
       IN  IF d = 0 THEN i ELSE closingPosition(text, i + 1, d)

\* The first balanced top-level brace-delimited substring of a text that
\* holds an opening brace.
FirstBalancedSpan(text) ==
  LET first == CHOOSE i \in 1..Len(text) :
                 text[i].t = "{" /\ \A j \in 1..(i - 1) : text[j].t # "{"
  IN  SubSeq(text, first, closingPosition(text, first, 0))

\* C22: parseJsonResponse decodes the first balanced top-level
\* brace-delimited substring of the reply, whatever text, braces included,
\* stands before or after that substring.
C22_DecodesFirstBalancedSpan ==
  \A c \in Calls :
    LET r == req[c[1]][c[2]]
    IN  ( /\ r.pc = "returned"
          /\ ~r.out.content.isNull
          /\ \E i \in 1..Len(r.out.content.text) : r.out.content.text[i].t = "{" )
        => parseJsonResponse(r.out.content) = jsonParse(FirstBalancedSpan(r.out.content.text))

\* The keyword scores of a message, Billing Issue having received the bonus
\* of 2 when the message holds "payment" and "fail" or "error".
ScoresWithBonus(message) ==
  LET lowerMessage == toLowerCase(message)
  IN  [ i \in 1..Len(CATEGORY_DEFINITIONS) |->
          keywordScore(lowerMessage, i)
          + (IF /\ CATEGORY_DEFINITIONS[i].name = BillingIssue
                /\ includes(lowerMessage, <<"p","a","y","m","e","n","t">>)
                /\ \/ includes(lowerMessage, <<"f","a","i","l">>)
                   \/ includes(lowerMessage, <<"e","r","r","o","r">>)
             THEN 2 ELSE 0) ]

TopScore(scores) ==
  CHOOSE w \in {scores[i] : i \in DOMAIN scores} : \A i \in DOMAIN scores : scores[i] <= w

CategorizationReturned ==
  call.pc = "returned" /\ call.fn = "getFallbackCategorization"

\* C23: getFallbackCategorization returns the category whose score, after
\* the payment bonus, is strictly higher than every other score, returns
\* General Inquiry when every score is zero, and gives confidence 0.8 when
\* the winning score exceeds 2, 0.6 when it is 1 or 2, 0.4 when it is zero.
C23_HighestScoreWins ==
  CategorizationReturned =>
    LET scores == ScoresWithBonus(call.message)
        w      == TopScore(scores)
    IN  /\ \A i \in DOMAIN scores :
             (\A j \in DOMAIN scores \ {i} : scores[i] > scores[j]) =>
               call.result.category = CATEGORY_DEFINITIONS[i].name
        /\ w = 0 => call.result.category = GeneralInquiry
        /\ call.result.confidence =
             JNum(IF w > 2 THEN 80 ELSE IF w > 0 THEN 60 ELSE 40)

\* A message whose Technical Problem score of 3 beats a positive Billing
\* Issue score.
C23_Witness ==
  /\ CategorizationReturned
  /\ ScoresWithBonus(call.message)[1] > 0
  /\ ScoresWithBonus(call.message)[2] = 3
  /\ call.result.category = TechnicalProblem
  /\ call.result.confidence = JNum(80)

\* C24: when Technical Problem and Billing Issue hold the same positive top
\* score after the payment bonus, getFallbackCategorization returns
\* Technical Problem.
C24_TechnicalWinsTie ==
  CategorizationReturned =>
    LET scores == ScoresWithBonus(call.message)
    IN  ( /\ scores[1] = scores[2]
          /\ scores[2] > 0
          /\ scores[2] = TopScore(scores) )
        => call.result.category = TechnicalProblem

UrgencyReturned == call.pc = "returned" /\ call.fn = "getFallbackUrgency"

Indicator(p) == IF p THEN 1 ELSE 0

\* C25: for every combination of signals and category, the score of
\* getFallbackUrgency is 50 + 35 [critical] + 20 [system impact]
\* + 15 [business impact] + 15 [negative] + (10 Technical Problem, 5 Billing
\* Issue, -15 Feature Request) - 20 [positive, not critical, not negative]
\* + 10 [two exclamation marks, negative or critical] - 10 [a question mark,
\* not critical, not negative], clamped to 0..100, and the level is High
\* from 70, Medium from 30, else Low.
C25_FallbackScoreFormula ==
  UrgencyReturned =>
    LET sig   == detectSignals(call.message)
        crit  == sig.hasCriticalKeyword
        neg   == sig.hasNegativeSentiment
        sum   == 50 + 35 * Indicator(crit) + 20 * Indicator(sig.hasSystemImpact)
                 + 15 * Indicator(sig.hasBusinessImpact) + 15 * Indicator(neg)
                 + 10 * Indicator(call.category = "Technical Problem")
                 + 5 * Indicator(call.category = "Billing Issue")
                 - 15 * Indicator(call.category = "Feature Request")
                 - 20 * Indicator(sig.hasPositiveSentiment /\ ~crit /\ ~neg)
                 + 10 * Indicator(sig.exclamationCount >= 2 /\ (neg \/ crit))
                 - 10 * Indicator(sig.questionCount > 0 /\ ~crit /\ ~neg)
        score == IF sum > 100 THEN 100 ELSE IF sum < 0 THEN 0 ELSE sum
    IN  /\ call.result.score = score
        /\ call.result.level = IF score >= 70 THEN "High"
                               ELSE IF score >= 30 THEN "Medium" ELSE "Low"

\* A Technical Problem message with every raising signal and two exclamation
\* marks: the sum of 155 is clamped to 100.
C25_Witness ==
  /\ UrgencyReturned
  /\ call.category = TechnicalProblem
  /\ detectSignals(call.message).hasCriticalKeyword
  /\ detectSignals(call.message).hasSystemImpact
  /\ detectSignals(call.message).hasBusinessImpact
  /\ detectSignals(call.message).hasNegativeSentiment
  /\ detectSignals(call.message).exclamationCount = 2
  /\ call.result.score = 100
  /\ call.result.level = "High"

RecommendationReturned ==
  call.pc = "returned" /\ call.fn = "getFallbackRecommendation"

\* The trigger groups of which the message of the call holds a keyword.
GroupsOfCall ==
  { g \in 1..Len(escalationTriggers) :
      someIncluded(toLowerCase(call.message), escalationTriggers[g].keywords) }

\* C26: getFallbackRecommendation escalates exactly when a trigger group
\* matches the message or the urgency level is High; with no matching group
\* and urgency High the reason is the supervisor-attention reason; with a
\* matching group the reason is that of the first matching group, urgency
\* High or not.
C26_EscalateIffTriggerOrHigh ==
  RecommendationReturned =>
    LET high == call.urgency = JStr("High")
    IN  /\ call.result.escalate = JBool(GroupsOfCall # {} \/ high)
        /\ (GroupsOfCall = {} /\ high) =>
             call.result.escalateReason =
               JStr("High urgency issue requires immediate supervisor attention")
        /\ GroupsOfCall # {} =>
             LET g == CHOOSE g \in GroupsOfCall : \A h \in GroupsOfCall : g <= h
             IN  call.result.escalateReason = JStr(TriggerReasons[g])
        /\ (GroupsOfCall = {} /\ ~high) => call.result.escalateReason = JNull

\* A churn-risk message at urgency High: the churn reason is kept.
C26_Witness ==
  /\ RecommendationReturned
  /\ call.urgency = JStr("High")
  /\ GroupsOfCall = {3}
  /\ call.result.escalate = JBool(TRUE)
  /\ call.result.escalateReason = JStr(TriggerReasons[3])

\* C27: a groqRequest call makes at most 3 attempts; the delay slept before
\* the first retry is 1 second and the delay before the second retry is 2
\* seconds; a call that throws has slept no delay after its last attempt.
C27_BoundedAttemptsAndBackoff ==
  \A c \in Calls :
    LET r == req[c[1]][c[2]]
    IN  /\ r.attempt <= 2
        /\ Len(r.errs) <= 3
        /\ Len(r.delays) <= 2
        /\ Len(r.delays) >= 1 => r.delays[1] = 1000
        /\ Len(r.delays) >= 2 => r.delays[2] = 2000
        /\ r.pc = "attempt" => Len(r.delays) = r.attempt
        /\ r.pc = "sleep" => Len(r.delays) = r.attempt + 1
        /\ (r.pc = "thrown" /\ r.errs # << >>) => Len(r.delays) = Len(r.errs) - 1

\* A call that threw the server error of its third attempt, after delays of
\* 1 and of 2 seconds.
C27_Witness ==
  \E c \in Calls :
    LET r == req[c[1]][c[2]]
    IN  /\ r.pc = "thrown"
        /\ r.attempt = 2
        /\ r.errs[Len(r.errs)] = ServerError
        /\ r.out = Thrown(ServerError)
        /\ r.delays = << 1000, 2000 >>

\* No groqRequest call is in flight, every run that was started has ended,
\* completed with its record in the history or cancelled, and the loading
\* flag is not set.
EveryRunEnded ==
  /\ \A c \in Calls : req[c[1]][c[2]].pc \in {"none", "consumed"}
  /\ \A a \in Runs :
       \/ run[a].pc = "idle"
       \/ /\ run[a].pc = "done"
          /\ \/ run[a].outcome = "cancelled"
             \/ /\ run[a].outcome = "completed"
                /\ \E i \in 1..Len(history) : history[i].run = a
  /\ ~isLoading

C29_RefHoldsRunInFlight ==
  \A a \in Runs :
    (run[a].pc \in {"stage1", "stage2"} /\ ~run[a].aborted) =>
      /\ abortControllerRef = a
      /\ isLoading

\* C30: the score of getFallbackUrgency before clamping is at least 5, so
\* the clamp at 0 leaves it as it is; and with category null, as passed by
\* calculateUrgencySync and by handleAnalyze, the level is Low exactly when
\* the message has positive sentiment and a question mark and has no
\* critical keyword, no negative sentiment, no system impact and no business
\* impact.
C30_LowerClampIsIdle ==
  UrgencyReturned =>
    LET sig == detectSignals(call.message)
        raw == rawFallbackScore(call.category, sig)
    IN  /\ raw >= 5
        /\ call.result.score = IF raw > 100 THEN 100 ELSE raw
        /\ call.category = NoCategory =>
             /\ call.result.level = calculateUrgencySync(call.message)
             /\ call.result.level = "Low" <=>
                  /\ sig.hasPositiveSentiment
                  /\ sig.questionCount > 0
                  /\ ~sig.hasCriticalKeyword
                  /\ ~sig.hasNegativeSentiment
                  /\ ~sig.hasSystemImpact
                  /\ ~sig.hasBusinessImpact

\* A message of thanks with a question mark, category null: score 20, Low.
C30_Witness ==
  /\ UrgencyReturned
  /\ call.category = NoCategory
  /\ detectSignals(call.message).hasPositiveSentiment
  /\ detectSignals(call.message).questionCount = 1
  /\ call.result.score = 20
  /\ call.result.level = "Low"

====
